---- MODULE Spec2Model ----
(***************************************************************************)
(* A model of the agent repository's orchestration loops and tool          *)
(* dispatch:                                                               *)
(*   - agents.py        Agent.run, StateManager, ToolManager, CodeExecutor *)
(*   - agent/agent.py   Agent.run, Agent.process_loop, Agent.reset,        *)
(*                      Agent._extract_tool_calls                          *)
(*   - agent/tools/registry.py   Tool, ToolRegistry                        *)
(*   - main.py          main                                               *)
(*   - shell_tool.py    ShellTool, its child processes and its callers     *)
(*   - editor_tool.py   EditorTool and the file system it works on         *)
(* One behaviour of the model is one program: `variant` says which entry   *)
(* point or which tool it is, and every action is guarded by it.           *)
(*                                                                         *)
(* Python strings are sequences of tokens (TLA+ strings): the text         *)
(* "Error: Tool 'x' not found." is <<"Error", ":", " Tool '", "x",         *)
(* "' not found.">>.  The word Error and a colon that follows it are       *)
(* always tokens of their own, so that str.lower and str.startswith can be *)
(* computed on the tokens.  Python values are records with a field t that  *)
(* names the Python type.  A dict is a set of [k, v] entries with distinct *)
(* keys.                                                                   *)
(***************************************************************************)
EXTENDS Integers, Sequences, FiniteSets, TLC

VARIABLES
    variant,            \* the entry point ("run", "process_loop", "main",
                        \* "run_code") or the tool ("shell", "editor",
                        \* "tools") of this behaviour
    pc,                 \* position of the entry point's control
    \* ---- observers: they record what happened and decide nothing
    providerCalls,      \* number of LLM provider calls issued
    summaryCalls,       \* those issued with the summary-only system prompt
    failedCalls,        \* those that failed
    lastDispatch,       \* the most recent tool dispatch
    turnLog,            \* the dispatches of the current turn, in order
    noToolTurn,         \* process_loop: the turn whose response held no call
    doneAt,             \* Agent.run: providerCalls when the done flag was set
    \* ---- agents.py: Agent.run, StateManager, CodeExecutor
    iterations,
    message_history,
    is_done,
    final_answer,
    plan,
    findings,
    globals_locals,
    outcome,            \* the status Agent.run prints when it ends
    \* ---- the provider's response of the current turn (Agent.run, main)
    content,            \* response_message.content / message.content
    idx,                \* position of the for loop over the blocks
    emitted,            \* the blocks the provider has emitted (block ids)
    \* ---- agent/agent.py: Agent, and its ToolRegistry
    max_steps,
    step_count,
    registry,           \* ToolRegistry.tools, in insertion order
    conversation,
    turn_count,
    final_turn,
    tool_used,
    tool_calls,
    callIdx,            \* position of the for loop over tool_calls
    ret,                \* the dict process_loop returns
    \* ---- main.py: main
    current_iteration,
    task_completed,
    conversation_history,
    \* ---- shell_tool.py: ShellTool, its processes and its callers
    shell,
    \* ---- editor_tool.py: EditorTool and the file system it works on
    editor,
    \* ---- agents.py: ToolManager, its custom tool and its definitions
    tool_manager

obsVars == <<providerCalls, summaryCalls, failedCalls, lastDispatch, turnLog,
             noToolTurn, doneAt>>

runVars == <<iterations, message_history, is_done, final_answer, plan,
             findings, globals_locals, outcome>>

turnVars == <<content, idx, emitted>>

loopVars == <<max_steps, step_count, registry, conversation, turn_count,
              final_turn, tool_used, tool_calls, callIdx, ret>>

mainVars == <<current_iteration, task_completed, conversation_history>>

vars == <<variant, pc, obsVars, runVars, turnVars, loopVars, mainVars, shell,
          editor, tool_manager>>

---------------------------------------------------------------------------
(* Bounds of the model *)

\* the most blocks one provider response of Agent.run may carry
MaxBlocks == 2

\* the most blocks the provider emits over one run of Agent.run
MaxTotalBlocks == 2

\* the largest max_steps an agent/agent.py Agent is built with
MaxSteps == 4

\* the largest max_steps of an Agent whose methods are called repeatedly
MaxAgentSteps == 4

\* the provider calls after which no further method of the Agent is called
MaxAgentCalls == 2

\* the most calls the callers of a ShellTool make together
MaxCalls == 3

\* the most child processes a ShellTool spawns
MaxProcesses == 2

\* the most lines a child process writes
MaxLines == 2

---------------------------------------------------------------------------
(* Python values *)

None == [t |-> "none"]

PyStr(toks) == [t |-> "str", s |-> toks]

PyInt(r) == [t |-> "int", repr |-> r]

PyObj(r) == [t |-> "obj", repr |-> r]

Range(s) == {s[i] : i \in 1..Len(s)}

\* str.lower, token by token
LowerTok(tok) ==
    CASE tok = "Error" -> "error"
      [] tok = "A" -> "a"
      [] tok = " Tool '" -> " tool '"
      [] OTHER -> tok

Lower(s) == [i \in 1..Len(s) |-> LowerTok(s[i])]

\* str.startswith
StartsWith(s, prefix) ==
    /\ Len(s) >= Len(prefix)
    /\ \A i \in 1..Len(prefix) : s[i] = prefix[i]

\* str(value)
Str(v) ==
    CASE v.t = "str" -> v.s
      [] v.t = "int" -> <<v.repr>>
      [] v.t = "obj" -> <<v.repr>>
      [] v.t = "list" -> <<"[]">>
      [] v.t = "copy" -> <<"{...}">>
      [] OTHER -> <<"None">>

\* dict helpers
Keys(d) == {e.k : e \in d}

Get(d, key) == (CHOOSE e \in d : e.k = key).v

\* dict[key] = val
Put(d, key, val) == {e \in d : e.k # key} \cup {[k |-> key, v |-> val]}

\* a raised exception, and the absence of one
Exc(type, msg) == [type |-> type, msg |-> msg]

NoExc == [type |-> "", msg |-> <<>>]

---------------------------------------------------------------------------
(* agents.py: CodeExecutor *)

\* A code fragment is a sequence of statements; Code(stmts) is the Python
\* string that holds it.
Code(stmts) == [t |-> "code", stmts |-> stmts]

\* n = <literal>
Assign(n, v) == [op |-> "assign", name |-> n, val |-> v]

\* n = []
AssignNewList(n) == [op |-> "new", name |-> n]

\* n = dict(n): an equal object that is not the same object
AssignCopy(n) == [op |-> "copy", name |-> n]

\* print(n)
PrintName(n) == [op |-> "print", name |-> n]

\* del n
Del(n) == [op |-> "del", name |-> n]

\* raise type(msg)
Raise(type, msg) == [op |-> "raise", exc |-> Exc(type, msg)]

\* text that compile() rejects
Invalid == [op |-> "invalid"]

\* import n
Import(n) == [op |-> "import", name |-> n]

\* the modules importlib finds in the interpreter: those of the default
\* AUTHORIZED_IMPORTS, and os
InstalledModules == {"math", "random", "datetime", "json", "re", "os"}

Builtins == PyObj("builtins")

\* Objects made while a fragment runs carry an identity: a list, and a copy
\* of a value.  Literals and the objects of the initial scope are the same
\* object whenever they are equal.
PyList(id) == [t |-> "list", id |-> id]

PyCopy(v, id) == [t |-> "copy", of |-> (IF v.t = "copy" THEN v.of ELSE v), id |-> id]

\* a is b
Is(a, b) == a = b

\* a == b
PyEq(a, b) ==
    LET val(v) == CASE v.t = "copy" -> v.of
                    [] v.t = "list" -> [t |-> "list"]
                    [] OTHER -> v
    IN  val(a) = val(b)

\* the classes `except Exception` does not catch
BaseExceptionOnly == {"SystemExit", "KeyboardInterrupt", "GeneratorExit"}

IsException(type) == type \notin BaseExceptionOnly

\* the identities in use in a scope, and one that is in none of them
IdsIn(scope) == {e.v.id : e \in {f \in scope : f.v.t \in {"list", "copy"}}}

FreshId(scope) ==
    IF IdsIn(scope) = {} THEN 1
    ELSE 1 + (CHOOSE m \in IdsIn(scope) : \A n \in IdsIn(scope) : n <= m)

NameError(n) == Exc("NameError", <<"name '", n, "' is not defined">>)

\* exec(compiled_code, globals): the statements from position i on, until
\* one raises.  r is [scope, stdout, exc, next], next being the identity of
\* the next object made.
RECURSIVE RunStmts(_, _, _)
RunStmts(code, i, r) ==
    IF i > Len(code) \/ r.exc # NoExc THEN r
    ELSE LET st == code[i] IN
         CASE st.op = "assign" ->
                RunStmts(code, i + 1, [r EXCEPT !.scope = Put(@, st.name, st.val)])
           [] st.op = "new" ->
                RunStmts(code, i + 1,
                    [r EXCEPT !.scope = Put(@, st.name, PyList(r.next)),
                              !.next = @ + 1])
           [] st.op = "copy" ->
                IF st.name \in Keys(r.scope)
                THEN RunStmts(code, i + 1,
                        [r EXCEPT !.scope = Put(@, st.name,
                                        PyCopy(Get(r.scope, st.name), r.next)),
                                  !.next = @ + 1])
                ELSE [r EXCEPT !.exc = NameError(st.name)]
           [] st.op = "print" ->
                IF st.name \in Keys(r.scope)
                THEN RunStmts(code, i + 1,
                        [r EXCEPT !.stdout = @ \o Str(Get(r.scope, st.name)) \o <<"\n">>])
                ELSE [r EXCEPT !.exc = NameError(st.name)]
           [] st.op = "del" ->
                IF st.name \in Keys(r.scope)
                THEN RunStmts(code, i + 1,
                        [r EXCEPT !.scope = {e \in @ : e.k # st.name}])
                ELSE [r EXCEPT !.exc = NameError(st.name)]
           [] st.op = "import" ->
                \* the import statement calls __import__ of the builtins
                \* that exec() has put into the globals
                IF st.name \in InstalledModules
                THEN RunStmts(code, i + 1,
                        [r EXCEPT !.scope = Put(@, st.name, PyObj(st.name))])
                ELSE [r EXCEPT !.exc = Exc("ModuleNotFoundError",
                                           <<"No module named '", st.name, "'">>)]
           [] OTHER -> [r EXCEPT !.exc = st.exc]

\* compile(code_string, '<string>', 'exec') and exec(compiled_code,
\* self.globals_locals), lines 160-162: what is raised, and the scope and the
\* captured stdout that are left.  exec() puts __builtins__ into the globals
\* dict it is given when the key is missing.
CompileAndExec(code_string, scope) ==
    IF \E i \in 1..Len(code_string.stmts) : code_string.stmts[i].op = "invalid"
    THEN [scope |-> scope, stdout |-> <<>>, next |-> 0,
          exc |-> Exc("SyntaxError", <<"invalid syntax (<string>, line 1)">>)]
    ELSE LET entered == IF "__builtins__" \in Keys(scope) THEN scope
                        ELSE Put(scope, "__builtins__", Builtins)
         IN  RunStmts(code_string.stmts, 1,
                      [scope |-> entered, stdout |-> <<>>, exc |-> NoExc,
                       next |-> FreshId(scope)])

\* lines 171-176: the entries that are new or no longer the same object,
\* without __builtins__ when it equals what was there before
UpdatedGlobals_ByEquality(globals_before, after) ==
    {e \in after : e.k \notin Keys(globals_before)
                    \/ ~PyEq(Get(globals_before, e.k), e.v)}

UpdatedGlobals(globals_before, after) ==
    LET changed == {e \in after : e.k \notin Keys(globals_before)
                                    \/ ~Is(Get(globals_before, e.k), e.v)}
    IN  {e \in changed : ~(/\ e.k = "__builtins__"
                           /\ "__builtins__" \in Keys(globals_before)
                           /\ PyEq(e.v, Get(globals_before, "__builtins__")))}

\* CodeExecutor.execute: [stdout, error, updated_globals, scope, exc,
\* escaped].  scope is self.globals_locals after the call and exc what the
\* fragment raised.  `except Exception` catches the exceptions of class
\* Exception; any other goes on to the caller (escaped), and then nothing is
\* returned.
ExecuteResult(globals_before, r) ==
    LET caught == r.exc # NoExc /\ IsException(r.exc.type)
        error_message == IF caught THEN PyStr(<<r.exc.type, ": ">> \o r.exc.msg)
                         ELSE None
    IN  [stdout |-> r.stdout, error |-> error_message,
         updated_globals |-> UpdatedGlobals(globals_before, r.scope),
         scope |-> r.scope, exc |-> r.exc,
         escaped |-> IF r.exc # NoExc /\ ~caught THEN r.exc ELSE NoExc]

execute(code_string, scope) ==
    ExecuteResult(scope, CompileAndExec(code_string, scope))

---------------------------------------------------------------------------
(* agents.py: the tool implementations and StateManager *)

\* The StateManager fields the tool implementations touch.  Agent.__init__
\* hands one dict to StateManager.execution_globals and to
\* CodeExecutor.globals_locals, so the two are one variable.
SM == [plan |-> plan, findings |-> findings, is_done |-> is_done,
       final_answer |-> final_answer, globals |-> globals_locals]

\* StateManager.set_done
set_done(st, answer) == [st EXCEPT !.is_done = TRUE, !.final_answer = answer]

\* StateManager.update_plan
update_plan(st, plan_markdown) == [st EXCEPT !.plan = plan_markdown]

\* StateManager.update_findings
update_findings(st, findings_markdown) == [st EXCEPT !.findings = findings_markdown]

\* StateManager.update_globals: dict.update
update_globals(st, new_globals) ==
    [st EXCEPT !.globals = {e \in @ : e.k \notin Keys(new_globals)} \cup new_globals]

\* A handler's outcome: the value it returns or the exception it raises, and
\* the state it leaves.
Returned(value, st) == [result |-> value, exc |-> NoExc, st |-> st]

Raised(exc, st) == [result |-> None, exc |-> exc, st |-> st]

\* the bindings a fragment makes are dropped when it ends
Executed_NoPersist(st, result) ==
    Returned([t |-> "dict", stdout |-> result.stdout, error |-> result.error], st)

\* execute_python_impl once code_executor.execute is over: the executor has
\* worked on the dict of the state manager, the delta is merged into it and
\* stdout and error are returned
Executed(st, result) ==
    LET st1 == [st EXCEPT !.globals = result.scope]
    IN  IF result.escaped # NoExc THEN Raised(result.escaped, st1)
        ELSE Returned([t |-> "dict", stdout |-> result.stdout,
                       error |-> result.error],
                      IF result.updated_globals # {}
                      THEN update_globals(st1, result.updated_globals) ELSE st1)

execute_python_impl(st, code) == Executed(st, execute(code, st.globals))

update_plan_impl(st, plan_markdown) ==
    Returned(PyStr(<<"Plan updated successfully.">>), update_plan(st, plan_markdown))

record_findings_impl(st, findings_markdown) ==
    Returned(PyStr(<<"Findings recorded successfully.">>),
             update_findings(st, findings_markdown))

final_answer_impl(st, result) == Returned(result, set_done(st, result))

\* search: rnd is the draw of random.random() < 0.1
search(st, query, rnd) ==
    IF query.t # "str"
    THEN Raised(Exc("AttributeError",
                    <<"'", query.t, "' object has no attribute 'lower'">>), st)
    ELSE IF "unknown" \in Range(Lower(query.s)) \/ rnd
    THEN Returned(PyStr(<<"No results found for query: '">> \o query.s \o <<"'">>), st)
    ELSE Returned(PyStr(<<"Result 1 for '">> \o query.s
                          \o <<"': Details about the query.">>), st)

---------------------------------------------------------------------------
(* agents.py: ToolManager *)

\* ToolManager._load_tools: the keys of _tool_implementations
tool_implementations ==
    {"execute_python", "update_plan", "record_findings", "final_answer", "search"}

\* the keyword parameters of each implementation, after the injected ones
ParamsOf(tool_name) ==
    CASE tool_name = "execute_python" -> {"code"}
      [] tool_name = "update_plan" -> {"plan_markdown"}
      [] tool_name = "record_findings" -> {"findings_markdown"}
      [] tool_name = "final_answer" -> {"result"}
      [] OTHER -> {"query"}

\* tool_function(..., **tool_args): Python raises TypeError before it enters
\* the function when the keywords are not the function's parameters.
CallImplementation(tool_name, tool_args, st, rnd) ==
    IF Keys(tool_args) # ParamsOf(tool_name)
    THEN Raised(Exc("TypeError", <<tool_name, "() got wrong arguments">>), st)
    ELSE CASE tool_name = "execute_python" ->
                execute_python_impl(st, Get(tool_args, "code"))
           [] tool_name = "update_plan" ->
                update_plan_impl(st, Get(tool_args, "plan_markdown"))
           [] tool_name = "record_findings" ->
                record_findings_impl(st, Get(tool_args, "findings_markdown"))
           [] tool_name = "final_answer" ->
                final_answer_impl(st, Get(tool_args, "result"))
           [] OTHER -> search(st, Get(tool_args, "query"), rnd)

\* the message leaves the name out
NotFoundMessage_NoName(tool_name) == PyStr(<<"Error", ":", " Tool not found.">>)

\* the string ToolManager.execute_tool returns for an unknown name
NotFoundMessage(tool_name) ==
    PyStr(<<"Error", ":", " Tool '", tool_name, "' not found.">>)

\* the string ToolManager.execute_tool returns when the call raised
ExecErrorMessage(tool_name, e) ==
    PyStr(<<"Error", " executing tool '", tool_name, "': ", e.type, ": ">> \o e.msg)

\* lines 398-409: the objects ToolManager passes ahead of **tool_args
InjectedDependencies(tool_name) ==
    CASE tool_name = "execute_python" -> {"code_executor", "state_manager"}
      [] tool_name \in {"update_plan", "record_findings", "final_answer"} ->
            {"state_manager"}
      [] OTHER -> {}

\* lines 410-433: what execute_tool makes of the call h of the implementation
ToolCalled(tool_name, tool_args, h) ==
    LET entered == Keys(tool_args) = ParamsOf(tool_name)
        given == IF entered
                 THEN Keys(tool_args) \cup InjectedDependencies(tool_name)
                 ELSE {}
    IN
    IF h.exc = NoExc
    THEN [result |-> h.result, st |-> h.st, invoked |-> TRUE, exc |-> NoExc,
          received |-> given, escaped |-> NoExc]
    ELSE IF IsException(h.exc.type)
    THEN [result |-> ExecErrorMessage(tool_name, h.exc), st |-> h.st,
          invoked |-> entered, exc |-> h.exc, received |-> given,
          escaped |-> NoExc]
    ELSE [result |-> None, st |-> h.st, invoked |-> entered, exc |-> h.exc,
          received |-> given, escaped |-> h.exc]

\* ToolManager.execute_tool: [result, st, invoked, exc, received, escaped];
\* invoked says that an implementation was entered, exc is what the call
\* raised, received is what the implementation was given when it was
\* entered, escaped is the exception `except Exception` (line 426) did not
\* catch: then execute_tool does not return
ToolManager_execute_tool(tool_name, tool_args, st, rnd) ==
    IF tool_name \notin tool_implementations
    THEN [result |-> NotFoundMessage(tool_name), st |-> st,
          invoked |-> FALSE, exc |-> NoExc, received |-> {}, escaped |-> NoExc]
    ELSE ToolCalled(tool_name, tool_args,
                    CallImplementation(tool_name, tool_args, st, rnd))

---------------------------------------------------------------------------
(* agents.py: StateManager's history *)

\* a message whose content is a plain string holds one block of type "plain"
Message(role, blocks) == [role |-> role, content |-> blocks]

\* StateManager.add_message
add_message(history, role, blocks) ==
    IF blocks = <<>> THEN history ELSE Append(history, Message(role, blocks))

\* StateManager.add_assistant_message
add_assistant_message(history, content_blocks) ==
    IF content_blocks # <<>> THEN add_message(history, "assistant", content_blocks)
    ELSE history

\* json.dumps of the dict execute_python_impl returns
JsonDumps(d) ==
    <<"{stdout: ">> \o d.stdout \o <<", error: ">>
        \o (IF d.error = None THEN <<"null">> ELSE d.error.s) \o <<"}">>

\* a result that is an error is not appended
add_tool_result_DropErrors(history, tool_use_id, result, is_error) ==
    IF is_error THEN history
    ELSE Append(history,
                Message("user", <<[type |-> "tool_result", tool_use_id |-> tool_use_id,
                                   is_error |-> is_error, content |-> Str(result)]>>))

\* StateManager.add_tool_result
add_tool_result(history, tool_use_id, result, is_error) ==
    LET content_block ==
            [type |-> "tool_result", tool_use_id |-> tool_use_id,
             is_error |-> is_error,
             content |-> IF result.t = "dict" THEN JsonDumps(result) ELSE Str(result)]
    IN  add_message(history, "user", <<content_block>>)

\* Agent.run, lines 614-622: is the result an error, and what the model is told
ClassifyResult(result) ==
    LET by_prefix == /\ result.t = "str"
                     /\ StartsWith(Lower(result.s), <<"error", ":">>)
        by_dict == /\ result.t = "dict"
                   /\ result.error # None
                   /\ result.error.s # <<>>
    IN  [is_error |-> by_prefix \/ by_dict,
         content |-> IF by_dict
                     THEN PyStr(<<"Error", " during execution: ">> \o result.error.s)
                     ELSE result]

---------------------------------------------------------------------------
(* agents.py: Agent.run *)

\* Agent.run, line 573
max_iterations == 15

PLAN_TEMPLATE == PyStr(<<"PLAN_TEMPLATE">>)

FINDINGS_TEMPLATE == PyStr(<<"FINDINGS_TEMPLATE">>)

\* the default of AUTHORIZED_IMPORTS
AUTHORIZED_IMPORTS == {"math", "random", "datetime", "json", "re"}

\* Agent._prepare_initial_globals: the authorized modules and the custom tools
InitialGlobals ==
    {[k |-> m, v |-> PyObj(m)] : m \in AUTHORIZED_IMPORTS}
        \cup {[k |-> "search", v |-> PyObj("search")]}

\* What the provider may send.  The values of the arguments:
StrA == PyStr(<<"A">>)

StrErr == PyStr(<<"Error", ":", " x">>)

FragFault == Code(<<Assign("y", PyInt("7")), Raise("ValueError", <<"boom">>)>>)

Arg(key, val) == {[k |-> key, v |-> val]}

NoArgs == {}

ToolUse(name, input) == [type |-> "tool_use", name |-> name, input |-> input]

TextBlock == [type |-> "text"]

RunBlockInputs ==
    { TextBlock,
      ToolUse("final_answer", Arg("result", StrA)),
      ToolUse("final_answer", Arg("result", StrErr)),
      ToolUse("nosuch", NoArgs),
      ToolUse("search", Arg("query", PyStr(<<"q">>))),
      ToolUse("search", Arg("query", PyStr(<<"q">>)) \cup Arg("limit", PyInt("5"))),
      ToolUse("search", Arg("query", PyInt("5"))),
      ToolUse("execute_python", Arg("code", FragFault)),
      ToolUse("update_plan", Arg("plan_markdown", PyStr(<<"P">>))) }

SeqsUpTo(S, n) == UNION {[1..k -> S] : k \in 0..n}

\* the provider gives every tool_use block an id of its own
WithIds(bs, base) ==
    [i \in 1..Len(bs) |->
        IF bs[i].type = "tool_use"
        THEN [type |-> "tool_use", id |-> base + i, name |-> bs[i].name,
              input |-> bs[i].input]
        ELSE bs[i]]

\* the entry point is Agent.run: with the tool calls of RunBlockInputs, or
\* with the code fragments of CodeBlockInputs
IsRun == variant \in {"run", "run_code"}

\* the provider asks for execute_python only: the fragments it may send
Fragments ==
    { Code(<<Assign("x", PyInt("5"))>>),
      Code(<<PrintName("x")>>),
      Code(<<Assign("x", PyInt("7")), Raise("ValueError", <<"boom">>)>>),
      Code(<<Raise("SystemExit", <<"1">>)>>),
      Code(<<Invalid>>),
      Code(<<AssignNewList("x")>>),
      Code(<<Assign("math", PyInt("5"))>>),
      Code(<<Del("math")>>),
      Code(<<Import("os")>>),
      Code(<<AssignCopy("__builtins__")>>) }

CodeBlockInputs ==
    {TextBlock} \cup {ToolUse("execute_python", Arg("code", f)) : f \in Fragments}

BlockInputs == IF variant = "run_code" THEN CodeBlockInputs ELSE RunBlockInputs

\* the while condition of Agent.run, line 576
RunLoopCond == ~is_done /\ iterations < max_iterations

\* the status printed after the loop, lines 642-653
FinalStatus(done, its) ==
    IF done THEN "completed"
    ELSE IF its >= max_iterations THEN "max_iterations"
    ELSE "unexpected"

\* what CodeExecutor.execute did in a dispatch: the fragment, the scope
\* before the call and the value of execute
NoExecCall == [ran |-> FALSE]

ExecCall(name, input, scope) ==
    IF name = "execute_python" /\ Keys(input) = {"code"}
    THEN [ran |-> TRUE, code |-> Get(input, "code"), before |-> scope,
          ret |-> execute(Get(input, "code"), scope)]
    ELSE NoExecCall

NoDispatch ==
    [tick |-> 0, engine |-> "", name |-> "", known |-> FALSE, invoked |-> FALSE,
     exc |-> NoExc, result |-> None, is_error |-> FALSE, failed |-> FALSE,
     received |-> {}, exec |-> NoExecCall]

\* lines 577-595: one more iteration, the provider answers with content
RunCallLLM ==
    /\ IsRun /\ pc = "loop" /\ RunLoopCond
    /\ iterations' = iterations + 1
    /\ providerCalls' = providerCalls + 1
    /\ \E bs \in SeqsUpTo(BlockInputs, MaxBlocks) :
        /\ emitted + Len(bs) <= MaxTotalBlocks
        /\ content' = WithIds(bs, emitted)
        /\ emitted' = emitted + Len(bs)
    /\ message_history' = add_assistant_message(message_history, content')
    /\ idx' = 1
    /\ turnLog' = <<>>
    /\ pc' = "blocks"
    /\ UNCHANGED <<variant, shell, editor, tool_manager, summaryCalls, failedCalls, lastDispatch, noToolTurn,
                   doneAt, is_done, final_answer, plan, findings, globals_locals,
                   outcome, loopVars, mainVars>>

\* lines 588-592: the provider call fails or returns no content: break
RunLLMFailed ==
    /\ IsRun /\ pc = "loop" /\ RunLoopCond
    /\ iterations' = iterations + 1
    /\ providerCalls' = providerCalls + 1
    /\ failedCalls' = failedCalls + 1
    /\ pc' = "finished"
    /\ outcome' = FinalStatus(is_done, iterations')
    /\ turnLog' = <<>>
    /\ UNCHANGED <<doneAt, variant, shell, editor, tool_manager, summaryCalls, lastDispatch, noToolTurn,
                   message_history, is_done, final_answer, plan, findings,
                   globals_locals, turnVars, loopVars, mainVars>>

\* lines 600-603: a text block is printed
RunTextBlock ==
    /\ IsRun /\ pc = "blocks" /\ idx <= Len(content)
    /\ content[idx].type = "text"
    /\ idx' = idx + 1
    /\ UNCHANGED <<variant, shell, editor, tool_manager, pc, obsVars, runVars, content, emitted, loopVars,
                   mainVars>>

\* lines 605-629: a tool_use block is dispatched and its result appended.
\* Agent.run has no try around execute_tool: an exception that escapes it
\* ends run, and the process.
RunToolResult(block, r) ==
        LET c == ClassifyResult(r.result)
            returns == r.escaped = NoExc
        IN  /\ plan' = r.st.plan
            /\ findings' = r.st.findings
            /\ is_done' = r.st.is_done
            /\ final_answer' = r.st.final_answer
            /\ globals_locals' = r.st.globals
            /\ message_history' =
                    IF returns
                    THEN add_tool_result(message_history, block.id, c.content, c.is_error)
                    ELSE message_history
            /\ lastDispatch' =
                    [tick |-> 1 - lastDispatch.tick, engine |-> "ToolManager",
                     name |-> block.name,
                     known |-> block.name \in tool_implementations,
                     invoked |-> r.invoked, exc |-> r.exc, result |-> r.result,
                     received |-> r.received,
                     exec |-> ExecCall(block.name, block.input, globals_locals),
                     is_error |-> c.is_error,
                     failed |-> \/ block.name \notin tool_implementations
                                \/ r.exc # NoExc
                                \/ (r.result.t = "dict" /\ r.result.error # None)]
            /\ turnLog' = IF returns THEN Append(turnLog, block.id) ELSE turnLog
            /\ doneAt' = IF r.st.is_done /\ ~is_done THEN providerCalls ELSE doneAt
            /\ idx' = IF returns THEN idx + 1 ELSE idx
            /\ pc' = IF returns THEN pc ELSE "crashed"

\* lines 605-612: the tool_use block at idx is handed to execute_tool
RunToolUseBlock ==
    /\ IsRun /\ pc = "blocks" /\ idx <= Len(content)
    /\ content[idx].type = "tool_use"
    /\ \E rnd \in BOOLEAN :
        RunToolResult(content[idx],
            ToolManager_execute_tool(content[idx].name, content[idx].input, SM, rnd))
    /\ UNCHANGED <<variant, shell, editor, tool_manager, providerCalls, summaryCalls, failedCalls,
                   noToolTurn, iterations, outcome, content, emitted, loopVars,
                   mainVars>>

\* the for loop is over (line 637): back to the while condition
RunEndTurn ==
    /\ IsRun /\ pc = "blocks" /\ idx > Len(content)
    /\ pc' = "loop"
    /\ UNCHANGED <<variant, shell, editor, tool_manager, obsVars, runVars, turnVars, loopVars, mainVars>>

\* lines 640-654: the while condition is false
RunFinish ==
    /\ IsRun /\ pc = "loop" /\ ~RunLoopCond
    /\ pc' = "finished"
    /\ outcome' = FinalStatus(is_done, iterations)
    /\ UNCHANGED <<variant, shell, editor, tool_manager, obsVars, iterations, message_history, is_done,
                   final_answer, plan, findings, globals_locals, turnVars,
                   loopVars, mainVars>>

---------------------------------------------------------------------------
(* agent/tools/registry.py: Tool and ToolRegistry *)

\* A Tool: its name and whether it has a handler.  What a handler does when
\* it is called is the caller's draw: it returns a value or raises.
Tool(name, handler) == [name |-> name, handler |-> handler]

ToolNames == {"a", "b"}

\* the tools the owner may register: b with and without a handler
Tools == {Tool("a", "fn"), Tool("b", "fn"), Tool("b", "none")}

\* Tool.parameters, the schema each tool is built with (line 18): a declares
\* the parameter x, b declares none
ToolParameters(name) == IF name = "a" THEN {"x"} ELSE {}

HandlerValue == [t |-> "dict", result |-> PyStr(<<"ok">>)]

HandlerOutcomes ==
    { [result |-> HandlerValue, exc |-> NoExc],
      [result |-> None, exc |-> Exc("ValueError", <<"bad">>)] }

\* the position of name in the registry, 0 when it is not registered
RECURSIVE IndexOf(_, _, _)
IndexOf(reg, name, i) ==
    IF i > Len(reg) THEN 0
    ELSE IF reg[i].name = name THEN i
    ELSE IndexOf(reg, name, i + 1)

\* ToolRegistry.register_tool: self.tools[tool.name] = tool
register_tool(reg, tool) ==
    LET i == IndexOf(reg, tool.name, 1) IN
    IF i = 0 THEN Append(reg, tool) ELSE [reg EXCEPT ![i] = tool]

\* ToolRegistry.get_tool
get_tool(reg, name) ==
    LET i == IndexOf(reg, name, 1) IN
    IF i = 0 THEN None ELSE reg[i]

ErrorDict(msg) == [t |-> "dict", error |-> PyStr(msg)]

\* the names the handler is called with, line 47: self.handler(args)
HandlerArgs(tool, args) == Keys(args)

\* Tool.execute: [result, invoked, exc, received]; h is what the handler does
Tool_execute(tool, args, h) ==
    IF tool.handler = "none"
    THEN [result |-> ErrorDict(<<"No handler implemented for tool '", tool.name, "'">>),
          invoked |-> FALSE, exc |-> NoExc, received |-> {}]
    ELSE IF h.exc = NoExc
    THEN [result |-> h.result, invoked |-> TRUE, exc |-> NoExc,
          received |-> HandlerArgs(tool, args)]
    ELSE [result |-> ErrorDict(<<"Error", " executing tool '", tool.name, "': ">> \o h.exc.msg),
          invoked |-> TRUE, exc |-> h.exc, received |-> HandlerArgs(tool, args)]

\* ToolRegistry.execute_tool
ToolRegistry_execute_tool(reg, name, args, h) ==
    LET tool == get_tool(reg, name) IN
    IF tool = None
    THEN [result |-> ErrorDict(<<"Tool '", name, "' not found in registry">>),
          invoked |-> FALSE, exc |-> NoExc, received |-> {}]
    ELSE Tool_execute(tool, args, h)

---------------------------------------------------------------------------
(* agent/agent.py: Agent._extract_tool_calls *)

\* A response text is a sequence of segments: plain words, a call written
\* name({...}) (pattern 1), a call written "Function to call: name ...
\* Arguments: {...}" (pattern 2), or a mention of the name followed by
\* key=value pairs (pattern 3).  json says whether the braces hold valid JSON.
Plain == [kind |-> "plain", name |-> "", json |-> FALSE, args |-> {}]

Call1(name, json, args) == [kind |-> "call1", name |-> name, json |-> json, args |-> args]

Call2(name, json, args) == [kind |-> "call2", name |-> name, json |-> json, args |-> args]

KeyValue(name, args) == [kind |-> "kv", name |-> name, json |-> FALSE, args |-> args]

\* re.findall: the segments of one kind that name the tool, in text order
RECURSIVE SelectMatches(_, _, _)
SelectMatches(text, kind, name) ==
    IF text = <<>> THEN <<>>
    ELSE LET rest == SelectMatches(Tail(text), kind, name) IN
         IF Head(text).kind = kind /\ Head(text).name = name
         THEN <<Head(text)>> \o rest ELSE rest

\* the first match that json.loads accepts, as a list of at most one call
FirstValid(matches) ==
    LET valid == SelectSeq(matches, LAMBDA m : m.json) IN
    IF valid = <<>> THEN <<>>
    ELSE <<[name |-> valid[1].name, args |-> valid[1].args]>>

\* pattern 3: the key=value pairs of every match, a later key overriding
RECURSIVE MergeArgs(_)
MergeArgs(matches) ==
    IF matches = <<>> THEN {}
    ELSE LET init == MergeArgs(SubSeq(matches, 1, Len(matches) - 1))
             last == matches[Len(matches)].args
         IN  {e \in init : e.k \notin Keys(last)} \cup last

\* the calls found for one tool name: pattern 1, else pattern 2, else pattern 3
CallsFor(text, tool_name) ==
    LET c1 == FirstValid(SelectMatches(text, "call1", tool_name))
        c2 == FirstValid(SelectMatches(text, "call2", tool_name))
        kv == MergeArgs(SelectMatches(text, "kv", tool_name))
    IN  IF c1 # <<>> THEN c1
        ELSE IF c2 # <<>> THEN c2
        ELSE IF kv # {} THEN <<[name |-> tool_name, args |-> kv]>>
        ELSE <<>>

\* Agent._extract_tool_calls: the loop over the registered tool names
RECURSIVE ExtractFrom(_, _, _)
ExtractFrom(text, reg, i) ==
    IF i > Len(reg) THEN <<>>
    ELSE CallsFor(text, reg[i].name) \o ExtractFrom(text, reg, i + 1)

extract_tool_calls(response_text, reg) == ExtractFrom(response_text, reg, 1)

---------------------------------------------------------------------------
(* agent/agent.py: Agent.process_loop *)

\* the programs that call the methods of an agent/agent.py Agent: one call
\* of process_loop on a new agent, or any calls of run, process_loop and
\* reset on one agent
IsLoop == variant \in {"process_loop", "agent"}

IsAgent == variant = "agent"

X1 == Arg("x", PyStr(<<"1">>))

X2 == Arg("x", PyStr(<<"2">>))

\* the response texts the provider may send
Texts ==
    { <<Plain>>,
      <<Call1("b", TRUE, X1), Plain, Call1("a", TRUE, X1)>>,
      <<Call1("a", FALSE, {}), Call2("a", TRUE, X1)>>,
      <<Plain, KeyValue("b", X1)>>,
      <<Call1("a", TRUE, X1), Call1("a", TRUE, X2)>> }

TextValue(text) == [t |-> "text", segs |-> text]

Turn(role, name, body) == [role |-> role, name |-> name, content |-> body]

\* line 85
max_tool_turns == max_steps - 1

\* the loop counts up to max_steps instead of max_steps - 1
LoopCond_UpToMaxSteps == turn_count <= max_steps

\* the while condition, line 94
LoopCond == turn_count < max_tool_turns

\* the summary call after the loop is made whenever the ceiling was reached
NeedsSummary_IgnoresFinalTurn == turn_count >= max_tool_turns

\* the condition of the summary call after the loop, line 180
NeedsSummary == turn_count >= max_tool_turns /\ ~final_turn

\* lines 204-214: the dict returned on the normal path
ReturnDict(conv, turns) ==
    [status |-> "success",
     final_response |-> IF conv[Len(conv)].role = "assistant"
                        THEN conv[Len(conv)].content ELSE None,
     turns |-> turns]

\* lines 116-121: the dict returned when a provider call of the loop fails
ErrorReturn == [status |-> "error", final_response |-> None, turns |-> 0]

\* Agent.add_tool, before the loop is started
AddTool ==
    /\ IsLoop /\ pc = "idle"
    /\ \E tool \in Tools : registry' = register_tool(registry, tool)
    /\ UNCHANGED <<variant, shell, editor, tool_manager, pc, obsVars, runVars, turnVars, max_steps, step_count,
                   conversation, turn_count, final_turn, tool_used, tool_calls,
                   callIdx, ret, mainVars>>

\* ToolRegistry.execute_tool called on the agent's registry by its owner
DirectExecuteTool ==
    /\ IsLoop /\ pc = "idle"
    /\ \E name \in ToolNames \cup {"nosuch"}, h \in HandlerOutcomes :
        LET r == ToolRegistry_execute_tool(registry, name, X1, h) IN
        lastDispatch' =
            [tick |-> 1 - lastDispatch.tick, engine |-> "ToolRegistry",
             name |-> name, known |-> IndexOf(registry, name, 1) # 0,
             invoked |-> r.invoked, exc |-> r.exc, result |-> r.result,
             received |-> r.received, exec |-> NoExecCall,
             is_error |-> FALSE, failed |-> "error" \in DOMAIN r.result]
    /\ UNCHANGED <<doneAt, variant, shell, editor, tool_manager, pc, providerCalls, summaryCalls, failedCalls, turnLog,
                   noToolTurn, runVars, turnVars, loopVars, mainVars>>

\* lines 80-92: process_loop is entered
BeginProcessLoop ==
    /\ IsLoop /\ pc = "idle"
    /\ conversation' = <<Turn("user", "", PyStr(<<"input">>))>>
    /\ turn_count' = 0
    /\ final_turn' = FALSE
    /\ tool_used' = FALSE
    /\ lastDispatch' = NoDispatch
    /\ pc' = "while"
    /\ UNCHANGED <<doneAt, variant, shell, editor, tool_manager, providerCalls, summaryCalls, failedCalls, turnLog,
                   noToolTurn, runVars, turnVars, max_steps, step_count, registry,
                   tool_calls, callIdx, ret, mainVars>>

\* lines 95-121: a provider call of the loop fails
LoopLLMError ==
    /\ IsLoop /\ pc = "while" /\ LoopCond
    /\ turn_count' = turn_count + 1
    /\ step_count' = step_count + 1
    /\ providerCalls' = providerCalls + 1
    /\ summaryCalls' = IF final_turn THEN summaryCalls + 1 ELSE summaryCalls
    /\ failedCalls' = failedCalls + 1
    /\ ret' = ErrorReturn
    /\ turnLog' = <<>>
    /\ pc' = "returned"
    /\ UNCHANGED <<doneAt, variant, shell, editor, tool_manager, lastDispatch, noToolTurn, runVars, turnVars, max_steps,
                   registry, conversation, final_turn, tool_used, tool_calls,
                   callIdx, mainVars>>

\* lines 95-133: the summary turn inside the loop
LoopSummaryResponse ==
    /\ IsLoop /\ pc = "while" /\ LoopCond /\ final_turn
    /\ turn_count' = turn_count + 1
    /\ step_count' = step_count + 1
    /\ providerCalls' = providerCalls + 1
    /\ summaryCalls' = summaryCalls + 1
    /\ \E text \in Texts :
        conversation' = Append(conversation, Turn("assistant", "", TextValue(text)))
    /\ turnLog' = <<>>
    /\ pc' = "after"
    /\ UNCHANGED <<doneAt, variant, shell, editor, tool_manager, failedCalls, lastDispatch, noToolTurn, runVars,
                   turnVars, max_steps, registry, final_turn, tool_used, tool_calls,
                   callIdx, ret, mainVars>>

\* lines 95-153: a turn with the tool-using system prompt
LoopResponse ==
    /\ IsLoop /\ pc = "while" /\ LoopCond /\ ~final_turn
    /\ turn_count' = turn_count + 1
    /\ step_count' = step_count + 1
    /\ providerCalls' = providerCalls + 1
    /\ turnLog' = <<>>
    /\ \E text \in Texts :
        LET calls == extract_tool_calls(text, registry) IN
        /\ conversation' = Append(conversation, Turn("assistant", "", TextValue(text)))
        /\ IF calls = <<>>
           THEN /\ noToolTurn' = <<[calls |-> providerCalls', used |-> tool_used]>>
                /\ IF tool_used
                   THEN final_turn' = TRUE /\ pc' = "while"
                   ELSE final_turn' = final_turn /\ pc' = "after"
                /\ UNCHANGED <<tool_used, tool_calls, callIdx>>
           ELSE /\ tool_used' = TRUE
                /\ tool_calls' = calls
                /\ callIdx' = 1
                /\ pc' = "calls"
                /\ UNCHANGED <<noToolTurn, final_turn>>
    /\ UNCHANGED <<variant, shell, editor, tool_manager, summaryCalls, failedCalls, lastDispatch, doneAt,
                   runVars, turnVars, max_steps, registry, ret, mainVars>>

\* lines 154-178: one tool call of the turn.  ToolRegistry.execute_tool
\* raises nothing, so the except branch is never taken.
LoopToolCall ==
    /\ IsLoop /\ pc = "calls" /\ callIdx <= Len(tool_calls)
    /\ \E h \in HandlerOutcomes :
        LET tool_call == tool_calls[callIdx]
            r == ToolRegistry_execute_tool(registry, tool_call.name, tool_call.args, h)
        IN  /\ conversation' =
                    Append(conversation, Turn("function", tool_call.name, r.result))
            /\ lastDispatch' =
                    [tick |-> 1 - lastDispatch.tick, engine |-> "ToolRegistry",
                     name |-> tool_call.name,
                     known |-> IndexOf(registry, tool_call.name, 1) # 0,
                     invoked |-> r.invoked, exc |-> r.exc, result |-> r.result,
                     received |-> r.received, exec |-> NoExecCall,
                     is_error |-> FALSE, failed |-> "error" \in DOMAIN r.result]
            /\ turnLog' = Append(turnLog, tool_call.name)
    /\ callIdx' = callIdx + 1
    /\ UNCHANGED <<doneAt, variant, shell, editor, tool_manager, pc, providerCalls, summaryCalls, failedCalls,
                   noToolTurn, runVars, turnVars, max_steps, step_count, registry,
                   turn_count, final_turn, tool_used, tool_calls, ret, mainVars>>

\* the for loop over tool_calls is over
LoopEndCalls ==
    /\ IsLoop /\ pc = "calls" /\ callIdx > Len(tool_calls)
    /\ pc' = "while"
    /\ UNCHANGED <<variant, shell, editor, tool_manager, obsVars, runVars, turnVars, loopVars, mainVars>>

\* the while condition is false
LoopExit ==
    /\ IsLoop /\ pc = "while" /\ ~LoopCond
    /\ pc' = "after"
    /\ UNCHANGED <<variant, shell, editor, tool_manager, obsVars, runVars, turnVars, loopVars, mainVars>>

\* lines 180-214: the summary call after the loop, then the return
PostLoopSummary ==
    /\ IsLoop /\ pc = "after" /\ NeedsSummary
    /\ providerCalls' = providerCalls + 1
    /\ summaryCalls' = summaryCalls + 1
    /\ \/ \E text \in Texts :
            /\ conversation' =
                    Append(conversation, Turn("assistant", "", TextValue(text)))
            /\ failedCalls' = failedCalls
       \/ /\ conversation' = conversation
          /\ failedCalls' = failedCalls + 1
    /\ ret' = ReturnDict(conversation', turn_count)
    /\ pc' = "returned"
    /\ UNCHANGED <<doneAt, variant, shell, editor, tool_manager, lastDispatch, turnLog, noToolTurn, runVars, turnVars,
                   max_steps, step_count, registry, turn_count, final_turn,
                   tool_used, tool_calls, callIdx, mainVars>>

\* lines 203-214: the return without a summary call
PostLoopReturn ==
    /\ IsLoop /\ pc = "after" /\ ~NeedsSummary
    /\ ret' = ReturnDict(conversation, turn_count)
    /\ pc' = "returned"
    /\ UNCHANGED <<variant, shell, editor, tool_manager, obsVars, runVars, turnVars, max_steps, step_count,
                   registry, conversation, turn_count, final_turn, tool_used,
                   tool_calls, callIdx, mainVars>>

---------------------------------------------------------------------------
\* Agent.run of agent/agent.py, lines 50-51: the ceiling is reached
AgentRunRefused ==
    /\ IsAgent /\ pc = "idle"
    /\ step_count >= max_steps
    /\ ret' = [status |-> "error", message |-> <<"Maximum steps reached">>]
    /\ UNCHANGED <<variant, shell, editor, tool_manager, pc, obsVars, runVars,
                   turnVars, max_steps, step_count, registry, conversation,
                   turn_count, final_turn, tool_used, tool_calls, callIdx,
                   mainVars>>

\* Agent.run of agent/agent.py, lines 53-67: one provider call, counted as
\* a step whether it succeeds or fails
AgentRun ==
    /\ IsAgent /\ pc = "idle"
    /\ providerCalls < MaxAgentCalls
    /\ step_count < max_steps
    /\ providerCalls' = providerCalls + 1
    /\ step_count' = step_count + 1
    /\ \/ /\ failedCalls' = failedCalls
          /\ \E text \in Texts :
                ret' = [status |-> "success", response |-> TextValue(text)]
       \/ /\ failedCalls' = failedCalls + 1
          /\ ret' = [status |-> "error", message |-> <<"provider">>]
    /\ UNCHANGED <<doneAt, variant, shell, editor, tool_manager, pc,
                   summaryCalls, lastDispatch, turnLog, noToolTurn, runVars,
                   turnVars, max_steps, registry, conversation, turn_count,
                   final_turn, tool_used, tool_calls, callIdx, mainVars>>

\* Agent.reset, lines 417-419
AgentReset ==
    /\ IsAgent /\ pc = "idle"
    /\ step_count' = 0
    /\ UNCHANGED <<variant, shell, editor, tool_manager, pc, obsVars, runVars,
                   turnVars, max_steps, registry, conversation, turn_count,
                   final_turn, tool_used, tool_calls, callIdx, ret, mainVars>>

\* process_loop has returned and the caller goes on to its next call
AgentNextCall ==
    /\ IsAgent /\ pc = "returned"
    /\ providerCalls < MaxAgentCalls
    /\ pc' = "idle"
    /\ UNCHANGED <<variant, shell, editor, tool_manager, obsVars, runVars,
                   turnVars, loopVars, mainVars>>

(* main.py: main *)

\* main, line 60
main_max_iterations == 10

\* EditorTool.name, and the name main compares shell calls with (ShellTool.name)
EditorName == "str_replace_editor"

ShellName == "shell_tool"

\* shell_exec is one of the names ShellTool.to_params advertises
MainBlockInputs ==
    { TextBlock,
      ToolUse("crawl_website", NoArgs),
      ToolUse(EditorName, NoArgs),
      ToolUse("shell_exec", NoArgs),
      ToolUse("idle", NoArgs) }

\* the while condition, line 82
MainLoopCond == ~task_completed /\ current_iteration < main_max_iterations

PlainMessage(role, toks) == [role |-> role, content |-> PyStr(toks)]

\* lines 120-127: the first text block, or the empty string
AssistantText(blocks) ==
    IF \E i \in 1..Len(blocks) : blocks[i].type = "text"
    THEN <<"text">> ELSE <<>>

\* lines 83-127: the provider answers
MainCallLLM ==
    /\ variant = "main" /\ pc = "loop" /\ MainLoopCond
    /\ current_iteration' = current_iteration + 1
    /\ providerCalls' = providerCalls + 1
    /\ \E bs \in SeqsUpTo(MainBlockInputs, MaxBlocks) :
        /\ emitted + Len(bs) <= MaxTotalBlocks
        /\ content' = WithIds(bs, emitted)
        /\ emitted' = emitted + Len(bs)
    /\ conversation_history' =
            Append(conversation_history,
                   PlainMessage("assistant", AssistantText(content')))
    /\ idx' = 1
    /\ turnLog' = <<>>
    /\ pc' = "blocks"
    /\ UNCHANGED <<doneAt, variant, shell, editor, tool_manager, summaryCalls, failedCalls, lastDispatch, noToolTurn,
                   runVars, loopVars, task_completed>>

\* line 86: client.messages.create raises, and nothing in main catches it
MainLLMRaises ==
    /\ variant = "main" /\ pc = "loop" /\ MainLoopCond
    /\ current_iteration' = current_iteration + 1
    /\ providerCalls' = providerCalls + 1
    /\ failedCalls' = failedCalls + 1
    /\ pc' = "crashed"
    /\ UNCHANGED <<doneAt, variant, shell, editor, tool_manager, summaryCalls, lastDispatch, turnLog, noToolTurn,
                   runVars, turnVars, loopVars, task_completed,
                   conversation_history>>

\* lines 137-139
MainTextBlock ==
    /\ variant = "main" /\ pc = "blocks" /\ idx <= Len(content)
    /\ content[idx].type = "text"
    /\ idx' = idx + 1
    /\ UNCHANGED <<variant, shell, editor, tool_manager, pc, obsVars, runVars, content, emitted, loopVars,
                   mainVars>>

\* lines 140-202: the if/elif chain over content.name; raises is the draw of
\* whether the tool's call raises
MainToolUseBlock ==
    /\ variant = "main" /\ pc = "blocks" /\ idx <= Len(content)
    /\ content[idx].type = "tool_use"
    /\ \E raises \in BOOLEAN :
        LET name == content[idx].name
            returned == PlainMessage("user", <<"Tool '", name, "' returned: ", "result">>)
            failed == PlainMessage("user", <<"Error", " executing ", name, ": ", "e">>)
        IN  /\ conversation_history' =
                    IF name \in {"crawl_website", EditorName, ShellName}
                    THEN Append(conversation_history,
                                IF raises THEN failed ELSE returned)
                    ELSE IF name = "idle"
                    THEN Append(conversation_history, returned)
                    ELSE conversation_history
            /\ task_completed' = (task_completed \/ name = "idle")
            /\ turnLog' = IF name \in {"crawl_website", EditorName, ShellName, "idle"}
                          THEN Append(turnLog, content[idx].id) ELSE turnLog
    /\ idx' = idx + 1
    /\ UNCHANGED <<doneAt, variant, shell, editor, tool_manager, pc, providerCalls, summaryCalls, failedCalls,
                   lastDispatch, noToolTurn, runVars, content, emitted, loopVars,
                   current_iteration>>

\* the for loop is over: back to the while condition
MainEndTurn ==
    /\ variant = "main" /\ pc = "blocks" /\ idx > Len(content)
    /\ pc' = "loop"
    /\ UNCHANGED <<variant, shell, editor, tool_manager, obsVars, runVars, turnVars, loopVars, mainVars>>

\* lines 207-209: the while condition is false
MainFinish ==
    /\ variant = "main" /\ pc = "loop" /\ ~MainLoopCond
    /\ pc' = "finished"
    /\ UNCHANGED <<variant, shell, editor, tool_manager, obsVars, runVars, turnVars, loopVars, mainVars>>


---------------------------------------------------------------------------
(* shell_tool.py: paths *)

\* A path is [absolute, parts]: parts is the sequence of its components and
\* a component is a sequence of characters, so that str(path) can be
\* compared character by character.
Path(absolute, parts) == [absolute |-> absolute, parts |-> parts]

DotDot == <<".", ".">>

\* self.root_path, line 29: /w
root_path == Path(TRUE, << <<"w">> >>)

\* the file system: the directories and the files there are
Directories ==
    { Path(TRUE, << <<"w">> >>),
      Path(TRUE, << <<"w">>, <<"s">> >>),
      Path(TRUE, << <<"w", "x">> >>),
      Path(TRUE, << <<"e">> >>) }

Files == { Path(TRUE, << <<"w">>, <<"f">> >>) }

\* the values of exec_dir a caller may pass: /w, /w/s, /wx, /e, /w/../e,
\* /w/f, /w/n and the relative s
ExecDirs ==
    Directories \cup Files \cup
    { Path(TRUE, << <<"w">>, DotDot, <<"e">> >>),
      Path(TRUE, << <<"w">>, <<"n">> >>),
      Path(FALSE, << <<"s">> >>) }

\* Path.resolve of an absolute path: the .. components are taken out with
\* the component before them
RECURSIVE ResolveParts(_, _)
ResolveParts(parts, done) ==
    IF parts = <<>> THEN done
    ELSE IF Head(parts) = DotDot
    THEN ResolveParts(Tail(parts),
                      IF done = <<>> THEN done ELSE SubSeq(done, 1, Len(done) - 1))
    ELSE ResolveParts(Tail(parts), Append(done, Head(parts)))

resolve(p) == Path(TRUE, ResolveParts(p.parts, <<>>))

\* str(path): the characters of the path
RECURSIVE PathStr(_)
PathStr(parts) ==
    IF parts = <<>> THEN <<>>
    ELSE <<"/">> \o Head(parts) \o PathStr(Tail(parts))

\* the path is the root directory or a descendant of it
UnderRoot_ByComponents(abs_path) ==
    /\ Len(abs_path.parts) >= Len(root_path.parts)
    /\ SubSeq(abs_path.parts, 1, Len(root_path.parts)) = root_path.parts

\* the test of line 140: the text of the path begins with the text of the
\* root
UnderRoot(abs_path) ==
    StartsWith(PathStr(abs_path.parts), PathStr(root_path.parts))

\* ShellTool.validate_path: the ValueError it raises, NoExc when it returns
validate_path(exec_dir) ==
    LET abs_path == resolve(exec_dir) IN
    IF ~UnderRoot(abs_path)
    THEN Exc("ValueError", <<"Path is outside the root directory">>)
    ELSE IF abs_path \notin Directories \cup Files
    THEN Exc("ValueError", <<"Directory does not exist">>)
    ELSE IF abs_path \notin Directories
    THEN Exc("ValueError", <<"Path is not a directory">>)
    ELSE NoExc

\* shell_exec, lines 169-173: the exception raised before anything is done
ExecDirError(exec_dir) ==
    IF ~exec_dir.absolute
    THEN Exc("ValueError", <<"exec_dir must be an absolute path">>)
    ELSE validate_path(exec_dir)

---------------------------------------------------------------------------
(* shell_tool.py: ShellTool, the processes it spawns and its callers *)

\* the session ids the callers use: s1 alone, or s1 and s2
SessionIds == {"s1", "s2"}

\* the callers of one ShellTool: one, or two at the same time
Callers == {1, 2}

\* a child process of subprocess.Popen with the session it is kept in: id is
\* the session id it was spawned for, pipe is what it has written to stdout
\* and nobody has read (the n-th line it writes is n), stdin is what was
\* sent to it, output and running are the entries of its session, waited
\* says that a shell_wait on it has returned success
Popen(id, cwd) ==
    [id |-> id, cwd |-> cwd, alive |-> TRUE, exit_code |-> None, pipe |-> <<>>,
     written |-> 0, stdin |-> <<>>, output |-> <<>>, running |-> FALSE,
     waited |-> FALSE]

\* what a call of the ShellTool ends with: the JSON object a method returns,
\* or (exc) the exception that gets to the caller and no result
ShellResult(op, status, output, running, exit_code) ==
    [op |-> op, status |-> status, output |-> output, running |-> running,
     exit_code |-> exit_code, exc |-> NoExc]

ShellRaised(op, exc) == [ShellResult(op, "", <<>>, FALSE, None) EXCEPT !.exc = exc]

NoShellResult == ShellResult("", "", <<>>, FALSE, None)

ShellError(op) == ShellResult(op, "error", <<>>, FALSE, None)

\* a caller: at is where it stands, exec_path, process, line, seconds,
\* output and press_enter are its locals, nested says that
\* shell_kill_process was called by shell_exec, before is the process the
\* table had for the id when shell_exec was called
IdleCaller ==
    [at |-> "idle", id |-> "", exec_path |-> root_path, process |-> 0,
     line |-> 0, seconds |-> 0, output |-> <<>>, press_enter |-> FALSE,
     nested |-> FALSE, before |-> 0, result |-> NoShellResult]

\* ShellTool.__init__: no session, no process
ShellTool(callers, ids) ==
    [callers |-> callers,
     sessions |-> [id \in ids |-> 0],
     processes |-> <<>>,
     caller |-> [t \in Callers |-> IdleCaller],
     calls |-> 0]

notShell == <<variant, pc, obsVars, runVars, turnVars, loopVars, mainVars,
              editor, tool_manager>>

IsShell == variant = "shell"

CallerAt(t, at) ==
    /\ IsShell
    /\ t \in 1..shell.callers
    /\ shell.caller[t].at = at

\* a method is called
Called(t) ==
    /\ CallerAt(t, "idle")
    /\ shell.calls < MaxCalls

\* a method returns
Return(c, result) == [IdleCaller EXCEPT !.result = result]

\* process.poll() is None
Alive(p) == shell.processes[p].alive

\* process.stdout.readline() returns: there is a line, or the process has
\* closed its end of the pipe
Readable(p) == shell.processes[p].pipe # <<>> \/ ~Alive(p)

\* shell_exec up to line 178: the path checks, then whether the id is known
ShellExecBegin(t, id, exec_dir) ==
    /\ Called(t)
    /\ id \in DOMAIN shell.sessions
    /\ Len(shell.processes) < MaxProcesses
    /\ LET c == shell.caller[t]
           known == shell.sessions[id] # 0
           c1 == [c EXCEPT !.id = id, !.before = shell.sessions[id],
                           !.nested = known, !.exec_path = resolve(exec_dir)]
           c2 == IF ExecDirError(exec_dir) # NoExc
                 THEN Return(c1, ShellError("exec"))
                 ELSE [c1 EXCEPT !.at = IF known THEN "kill_lookup"
                                       ELSE "exec_popen"]
       IN  shell' = [shell EXCEPT !.caller[t] = c2, !.calls = @ + 1]
    /\ UNCHANGED notShell

\* shell_exec, lines 181-191: subprocess.Popen
ShellExecPopen(t) ==
    /\ CallerAt(t, "exec_popen")
    /\ shell' = [shell EXCEPT
           !.processes = Append(@, Popen(shell.caller[t].id,
                                          shell.caller[t].exec_path)),
           !.caller[t].process = Len(shell.processes) + 1,
           !.caller[t].at = "exec_store"]
    /\ UNCHANGED notShell

\* the table is emptied before the new session is stored
ShellExecStore_ClearsTable(t) ==
    /\ CallerAt(t, "exec_store")
    /\ LET c == shell.caller[t]
           p == c.process
       IN  shell' = [shell EXCEPT
               !.sessions = [id \in DOMAIN @ |-> IF id = c.id THEN p ELSE 0],
               !.processes[p].output = <<>>,
               !.processes[p].running = TRUE,
               !.caller[t] = Return(c, ShellResult("exec", "success", <<>>,
                                                   TRUE, None))]
    /\ UNCHANGED notShell

\* shell_exec, lines 194-207: the session is stored and success returned
ShellExecStore(t) ==
    /\ CallerAt(t, "exec_store")
    /\ LET c == shell.caller[t]
           p == c.process
       IN  shell' = [shell EXCEPT
               !.sessions[c.id] = p,
               !.processes[p].output = <<>>,
               !.processes[p].running = TRUE,
               !.caller[t] = Return(c, ShellResult("exec", "success", <<>>,
                                                   TRUE, None))]
    /\ UNCHANGED notShell

\* shell_kill_process is called by a caller
ShellKillBegin(t, id) ==
    /\ Called(t)
    /\ id \in DOMAIN shell.sessions
    /\ shell' = [shell EXCEPT
           !.caller[t] = [@ EXCEPT !.id = id, !.nested = FALSE,
                                   !.process = 0, !.at = "kill_lookup"],
           !.calls = @ + 1]
    /\ UNCHANGED notShell

\* where shell_kill_process goes when it is over: back into shell_exec,
\* which ignores what it returned, or to its caller
AfterKill(c, result) ==
    IF c.nested THEN [c EXCEPT !.at = "exec_popen", !.process = 0]
    ELSE Return(c, result)

\* shell_kill_process, lines 379-383
ShellKillLookup(t) ==
    /\ CallerAt(t, "kill_lookup")
    /\ LET c == shell.caller[t] IN
       shell' = [shell EXCEPT !.caller[t] =
           IF shell.sessions[c.id] = 0
           THEN AfterKill(c, ShellError("kill"))
           ELSE [c EXCEPT !.process = shell.sessions[c.id],
                          !.at = "kill_terminate"]]
    /\ UNCHANGED notShell

\* shell_kill_process, lines 385-393: terminate(), wait(timeout=3) and
\* kill() when the wait times out
Terminated_Ignored(process) == process

Terminated(process) ==
    IF process.alive
    THEN [process EXCEPT !.alive = FALSE, !.exit_code = PyInt(<<"-15">>)]
    ELSE process

ShellKillTerminate(t) ==
    /\ CallerAt(t, "kill_terminate")
    /\ LET p == shell.caller[t].process IN
       shell' = [shell EXCEPT
           !.processes[p] = Terminated(@),
           !.caller[t].at = "kill_mark"]
    /\ UNCHANGED notShell

\* shell_kill_process, lines 395-401
Marked_Still(process) == process

\* session["running"] = False
Marked(process) == [process EXCEPT !.running = FALSE]

ShellKillMark(t) ==
    /\ CallerAt(t, "kill_mark")
    /\ LET c == shell.caller[t]
           p == c.process
       IN  shell' = [shell EXCEPT
               !.processes[p] = Marked(@),
               !.caller[t] = AfterKill(c, ShellResult("kill", "success", <<>>,
                                                      FALSE, None))]
    /\ UNCHANGED notShell

\* shell_view and shell_wait, up to the loop: the session is looked up
\* an id without session is taken for a session that has said nothing
ShellLookup_NoError(t, id, op) ==
    [shell EXCEPT
        !.caller[t] = IF shell.sessions[id] = 0
                      THEN Return(@, ShellResult(op, "success", <<>>, FALSE, None))
                      ELSE [@ EXCEPT !.id = id, !.nested = FALSE,
                                     !.process = shell.sessions[id],
                                     !.at = op \o "_poll"],
        !.calls = @ + 1]

ShellLookup(t, id, op) ==
    LET c == [shell.caller[t] EXCEPT !.id = id, !.nested = FALSE,
                                     !.process = shell.sessions[id]]
    IN  [shell EXCEPT
            !.caller[t] = IF shell.sessions[id] = 0
                          THEN Return(c, ShellError(op))
                          ELSE [c EXCEPT !.at = op \o "_poll"],
            !.calls = @ + 1]

\* shell_view, lines 222-230
ShellViewBegin(t, id) ==
    /\ Called(t)
    /\ id \in DOMAIN shell.sessions
    /\ shell' = ShellLookup(t, id, "view")
    /\ UNCHANGED notShell

\* the values of seconds: 0, and the 60 of line 278 that stands for None.
\* A child process lives less than 60 seconds.
WaitSeconds == {0, 60}

\* time.time() - start_time > timeout, line 292
DeadlinePassed(seconds) == IF seconds = 0 THEN BOOLEAN ELSE {FALSE}

\* shell_wait, lines 270-282
ShellWaitBegin(t, id, seconds) ==
    /\ Called(t)
    /\ id \in DOMAIN shell.sessions
    /\ LET found == ShellLookup(t, id, "wait") IN
       shell' = IF found.caller[t].at = "idle" THEN found
                ELSE [found EXCEPT !.caller[t].seconds = seconds]
    /\ UNCHANGED notShell

\* shell_view, lines 232-234
ShellViewPoll(t) ==
    /\ CallerAt(t, "view_poll")
    /\ LET p == shell.caller[t].process IN
       shell' = [shell EXCEPT
           !.processes[p].running = IF Alive(p) THEN @ ELSE FALSE,
           !.caller[t].at = "view_readline"]
    /\ UNCHANGED notShell

\* line = process.stdout.readline(): the caller has the line, or nothing at
\* the end of the pipe
Readline(t, got, eof) ==
    LET p == shell.caller[t].process
        pipe == shell.processes[p].pipe
    IN  /\ Readable(p)
        /\ shell' = IF pipe # <<>>
                    THEN [shell EXCEPT !.processes[p].pipe = Tail(pipe),
                                       !.caller[t].line = Head(pipe),
                                       !.caller[t].at = got]
                    ELSE [shell EXCEPT !.caller[t].at = eof]

\* the buffer holds the latest line only
AppendLine_Replace(t, then) ==
    LET c == shell.caller[t] IN
    shell' = [shell EXCEPT
        !.processes[c.process].output = <<c.line>>,
        !.caller[t].line = 0,
        !.caller[t].at = then]

\* session["output"].append(line)
AppendLine(t, then) ==
    LET c == shell.caller[t] IN
    shell' = [shell EXCEPT
        !.processes[c.process].output = Append(@, c.line),
        !.caller[t].line = 0,
        !.caller[t].at = then]

\* shell_view, lines 237-239
ShellViewReadline(t) ==
    /\ CallerAt(t, "view_readline")
    /\ Readline(t, "view_append", "view_finish")
    /\ UNCHANGED notShell

\* shell_view, lines 240-241
ShellViewAppend(t) ==
    /\ CallerAt(t, "view_append")
    /\ AppendLine(t, "view_poll")
    /\ UNCHANGED notShell

\* shell_view, lines 244-255
ViewResult_NewOutputOnly(p) ==
    ShellResult("view", "success", <<>>, p.alive, p.exit_code)

ViewResult(p) == ShellResult("view", "success", p.output, p.alive, p.exit_code)

ShellViewFinish(t) ==
    /\ CallerAt(t, "view_finish")
    /\ LET c == shell.caller[t]
           p == shell.processes[c.process]
       IN  shell' = [shell EXCEPT
               !.processes[c.process].running = p.alive,
               !.caller[t] = Return(c, ViewResult(p))]
    /\ UNCHANGED notShell

\* shell_wait, line 284: while process.poll() is None
ShellWaitPoll(t) ==
    /\ CallerAt(t, "wait_poll")
    /\ shell' = [shell EXCEPT !.caller[t].at =
           IF Alive(shell.caller[t].process) THEN "wait_readline"
           ELSE "wait_rest"]
    /\ UNCHANGED notShell

\* shell_wait, lines 286-287
ShellWaitReadline(t) ==
    /\ CallerAt(t, "wait_readline")
    /\ Readline(t, "wait_append", "wait_timeout")
    /\ UNCHANGED notShell

\* output.append(line) and session["output"].append(line) of shell_wait
AppendBoth(t, then) ==
    LET c == shell.caller[t] IN
    shell' = [shell EXCEPT
        !.processes[c.process].output = Append(@, c.line),
        !.caller[t].output = Append(@, c.line),
        !.caller[t].line = 0,
        !.caller[t].at = then]

\* shell_wait, lines 288-289
ShellWaitAppend(t) ==
    /\ CallerAt(t, "wait_append")
    /\ AppendBoth(t, "wait_timeout")
    /\ UNCHANGED notShell

\* shell_wait, lines 292-300: the time is over, or the loop goes on
ShellWaitTimeout(t) ==
    /\ CallerAt(t, "wait_timeout")
    /\ LET c == shell.caller[t]
           p == shell.processes[c.process]
       IN  \E over \in DeadlinePassed(c.seconds) :
             shell' = [shell EXCEPT !.caller[t] =
                 IF over
                 THEN Return(c, ShellResult("wait", "timeout", c.output, TRUE,
                                            None))
                 ELSE [c EXCEPT !.at = "wait_poll"]]
    /\ UNCHANGED notShell

\* shell_wait, lines 303-321: what is left in the pipe of the ended
\* process, then the result
ShellWaitRest(t) ==
    /\ CallerAt(t, "wait_rest")
    /\ LET c == shell.caller[t]
           p == shell.processes[c.process]
       IN  shell' = IF p.pipe # <<>>
                    THEN [shell EXCEPT
                            !.processes[c.process].pipe = Tail(p.pipe),
                            !.caller[t].line = Head(p.pipe),
                            !.caller[t].at = "wait_rest_append"]
                    ELSE [shell EXCEPT
                            !.processes[c.process].running = FALSE,
                            !.processes[c.process].waited = TRUE,
                            !.caller[t] = Return(c,
                                ShellResult("wait", "success", c.output, FALSE,
                                            p.exit_code))]
    /\ UNCHANGED notShell

\* shell_wait, lines 304-305
ShellWaitRestAppend(t) ==
    /\ CallerAt(t, "wait_rest_append")
    /\ AppendBoth(t, "wait_rest")
    /\ UNCHANGED notShell

\* the text the callers write to a process
Input == <<"y">>

\* shell_write_to_process, lines 333-339
ShellWriteBegin(t, id, press_enter) ==
    /\ Called(t)
    /\ id \in DOMAIN shell.sessions
    /\ LET found == ShellLookup(t, id, "write") IN
       shell' = IF found.caller[t].at = "idle" THEN found
                ELSE [found EXCEPT !.caller[t].press_enter = press_enter]
    /\ UNCHANGED notShell

\* the keyword arguments of ShellTool.__call__ that do not get to a method:
\* the input of the advertised shell_view (an id and no command), a call
\* without id, the input of the advertised shell_exec (its command is the
\* shell command), shell_exec without exec_dir, and
\* shell_write_to_process without input
Kwarg(k, s) == [k |-> k, v |-> PyStr(<<s>>)]

CallKwargs ==
    { {Kwarg("id", "s1")},
      {Kwarg("command", "shell_view")},
      {Kwarg("command", "ls"), Kwarg("id", "s1"), Kwarg("exec_dir", "/w")},
      {Kwarg("command", "shell_exec"), Kwarg("id", "s1"), Kwarg("shell_command", "ls")},
      {Kwarg("command", "shell_write_to_process"), Kwarg("id", "s1"), Kwarg("press_enter", "True")} }

\* the commands dict of __call__, lines 419-425
commands ==
    {"shell_exec", "shell_view", "shell_wait", "shell_write_to_process",
     "shell_kill_process"}

\* a keyword argument with the default None, when it is not passed
Kw(kwargs, k) == IF k \in Keys(kwargs) THEN Get(kwargs, k) ELSE None

\* ShellTool.__call__, lines 406-452, when it calls no method: command and
\* id are keyword-only and have no default, so that binding the arguments
\* raises TypeError when one is missing; an unknown command and a missing
\* argument of the command are error results
ShellCallResult(kwargs) ==
    IF ~({"command", "id"} \subseteq Keys(kwargs))
    THEN ShellRaised("__call__", Exc("TypeError", <<"missing required keyword-only argument">>))
    ELSE IF Get(kwargs, "command").s[1] \notin commands
    THEN ShellError("__call__")
    ELSE IF \/ /\ Get(kwargs, "command").s[1] = "shell_exec"
               /\ (Kw(kwargs, "exec_dir") = None \/ Kw(kwargs, "shell_command") = None)
            \/ /\ Get(kwargs, "command").s[1] = "shell_write_to_process"
               /\ (Kw(kwargs, "input") = None \/ Kw(kwargs, "press_enter") = None)
    THEN ShellError("__call__")
    ELSE NoShellResult

ShellCall(t, kwargs) ==
    /\ Called(t)
    /\ ShellCallResult(kwargs) # NoShellResult
    /\ shell' = [shell EXCEPT
                    !.caller[t] = Return(@, ShellCallResult(kwargs)),
                    !.calls = @ + 1]
    /\ UNCHANGED notShell

\* shell_write_to_process, lines 341-346: the process has ended
ShellWritePoll(t) ==
    /\ CallerAt(t, "write_poll")
    /\ LET c == shell.caller[t] IN
       shell' = [shell EXCEPT !.caller[t] =
           IF Alive(c.process) THEN [c EXCEPT !.at = "write_send"]
           ELSE Return(c, ShellError("write"))]
    /\ UNCHANGED notShell

InputText_AlwaysEnter(input, press_enter) == input \o <<"\n">>

\* lines 348-351
InputText(input, press_enter) ==
    IF press_enter THEN input \o <<"\n">> ELSE input

\* shell_write_to_process, lines 353-360: write and flush; on the pipe of
\* a process that has ended in between flush raises BrokenPipeError, which
\* line 365 makes an error result
ShellWriteSend(t) ==
    /\ CallerAt(t, "write_send")
    /\ LET c == shell.caller[t] IN
       shell' = IF Alive(c.process)
                THEN [shell EXCEPT
                        !.processes[c.process].stdin =
                            @ \o InputText(Input, c.press_enter),
                        !.caller[t] = Return(c, ShellResult("write", "success",
                                                            <<>>, FALSE, None))]
                ELSE [shell EXCEPT !.caller[t] = Return(c, ShellError("write"))]
    /\ UNCHANGED notShell

\* a child process writes its next line to stdout
ProcessWrites(p) ==
    /\ IsShell
    /\ p \in 1..Len(shell.processes)
    /\ Alive(p)
    /\ shell.processes[p].written < MaxLines
    /\ shell' = [shell EXCEPT
           !.processes[p].written = @ + 1,
           !.processes[p].pipe = Append(@, shell.processes[p].written + 1)]
    /\ UNCHANGED notShell

\* a child process ends by itself
ProcessExits(p) ==
    /\ IsShell
    /\ p \in 1..Len(shell.processes)
    /\ Alive(p)
    /\ shell' = [shell EXCEPT !.processes[p].alive = FALSE,
                              !.processes[p].exit_code = PyInt(<<"0">>)]
    /\ UNCHANGED notShell

---------------------------------------------------------------------------
(* editor_tool.py: EditorTool and the file system it works on *)

\* the most calls of the editor in one behaviour
MaxEdits == 3

\* the text /w/f holds at the start: the lines a and b
InitialText == <<"a", "\n", "b">>

\* EditorTool.__init__, lines 26-31: no history; dirs and files are the file
\* system, a file is an entry [k, v] of its resolved path and its text, and
\* _file_history is keyed by the path as the caller gave it (normalized,
\* not resolved); edits records, for each file, its contents before the
\* successful edits that no undo_edit has taken back
EditorResult(command, path, status, message, text, listing) ==
    [command |-> command, path |-> path, status |-> status,
     message |-> message, content |-> text, contents |-> listing]

EditorTool ==
    [dirs |-> Directories,
     files |-> {[k |-> f, v |-> InitialText] : f \in Files},
     _file_history |-> {},
     edits |-> {},
     calls |-> 0,
     result |-> EditorResult("", root_path, "", <<>>, <<>>, {})]

\* the values of path a caller may pass: /w/f, /w/s, /w/n, /wx/d/n, /e,
\* /w/s/../f and the relative f
EditorPaths ==
    { Path(TRUE, << <<"w">>, <<"f">> >>),
      Path(TRUE, << <<"w">>, <<"s">> >>),
      Path(TRUE, << <<"w">>, <<"n">> >>),
      Path(TRUE, << <<"w", "x">>, <<"d">>, <<"n">> >>),
      Path(TRUE, << <<"e">> >>),
      Path(TRUE, << <<"w">>, <<"s">>, DotDot, <<"f">> >>),
      Path(FALSE, << <<"f">> >>) }

\* the texts a caller may pass as old_str, as new_str and as file_text
OldTexts == { <<"a">>, <<"b">>, <<"a", "a">> }

NewTexts == { <<"a">>, <<"c">> }

FileTexts == { <<"a">>, <<"a", "a", "a">> }

\* Path.parent
Parent(p) == Path(p.absolute, SubSeq(p.parts, 1, Len(p.parts) - 1))

\* Path.exists and Path.is_dir in the file system of e
is_dir(e, p) == resolve(p).parts = <<>> \/ resolve(p) \in e.dirs

is_file(e, p) == resolve(p) \in Keys(e.files)

exists(e, p) == is_dir(e, p) \/ is_file(e, p)

\* normalize_path, lines 78-83
normalize_path(path) ==
    IF path.absolute THEN path ELSE Path(TRUE, root_path.parts \o path.parts)

\* parent.mkdir(parents=True), line 55: the directory and its missing
\* ancestors are made; it raises when an ancestor is a file
MkdirParents(e, parent) ==
    LET ancestors == {Path(TRUE, SubSeq(parent.parts, 1, n)) : n \in 1..Len(parent.parts)} IN
    IF \E a \in ancestors : is_file(e, a)
    THEN [editor |-> e, exc |-> Exc("ValueError", <<"Error validating path">>)]
    ELSE [editor |-> [e EXCEPT !.dirs = @ \cup ancestors], exc |-> NoExc]

\* the test of line 46: the text of the resolved path begins with the text
\* of the root
EditorUnderRoot(abs_path) ==
    StartsWith(PathStr(abs_path.parts), PathStr(root_path.parts))

\* lines 57-72 of validate_path: the checks made after the parent
\* directories of a create are there
ValidateRest(e, command, path) ==
    IF ~path.absolute
    THEN Exc("ValueError", <<"Path is not absolute">>)
    ELSE IF ~exists(e, path) /\ command # "create"
    THEN Exc("ValueError", <<"Path does not exist">>)
    ELSE IF exists(e, path) /\ command = "create"
    THEN Exc("ValueError", <<"File already exists">>)
    ELSE IF is_dir(e, path) /\ command # "view"
    THEN Exc("ValueError", <<"Path is a directory and only view command is allowed">>)
    ELSE NoExc

\* EditorTool.validate_path, lines 40-76: the editor it leaves and the
\* ValueError it raises, NoExc when it returns
EditorTool_validate_path(e, command, path) ==
    LET abs_path == resolve(path) IN
    IF ~EditorUnderRoot(abs_path)
    THEN [editor |-> e, exc |-> Exc("ValueError", <<"Path is outside the root directory">>)]
    ELSE LET made == IF command = "create" /\ ~exists(e, Parent(abs_path))
                     THEN MkdirParents(e, Parent(abs_path))
                     ELSE [editor |-> e, exc |-> NoExc]
         IN  IF made.exc # NoExc THEN made
             ELSE [editor |-> made.editor,
                   exc |-> ValidateRest(made.editor, command, path)]

\* write_file, lines 92-97
write_file(e, path, text) ==
    IF is_dir(e, path) \/ ~is_dir(e, Parent(resolve(path)))
    THEN [editor |-> e, exc |-> Exc("ValueError", <<"Error writing">>)]
    ELSE [editor |-> [e EXCEPT !.files = Put(@, resolve(path), text)],
          exc |-> NoExc]

\* read_file, lines 85-90, of a file that is there
read_file(e, path) == Get(e.files, resolve(path))

\* str.count: the occurrences of sub in s that do not overlap, from the left
RECURSIVE Count(_, _)
Count(s, sub) ==
    IF sub = <<>> THEN Len(s) + 1
    ELSE IF Len(s) < Len(sub) THEN 0
    ELSE IF StartsWith(s, sub)
    THEN 1 + Count(SubSeq(s, Len(sub) + 1, Len(s)), sub)
    ELSE Count(Tail(s), sub)

\* str.replace of a non-empty old by new, every occurrence
RECURSIVE Replace(_, _, _)
Replace(s, old, new) ==
    IF Len(s) < Len(old) \/ old = <<>> THEN s
    ELSE IF StartsWith(s, old)
    THEN new \o Replace(SubSeq(s, Len(old) + 1, Len(s)), old, new)
    ELSE <<Head(s)>> \o Replace(Tail(s), old, new)

\* str.split("\n"): the lines of a text, and "\n".join of lines
RECURSIVE Split(_, _)
Split(s, line) ==
    IF s = <<>> THEN <<line>>
    ELSE IF Head(s) = "\n" THEN <<line>> \o Split(Tail(s), <<>>)
    ELSE Split(Tail(s), Append(line, Head(s)))

RECURSIVE Join(_)
Join(lines) ==
    IF lines = <<>> THEN <<>>
    ELSE IF Len(lines) = 1 THEN lines[1]
    ELSE lines[1] \o <<"\n">> \o Join(Tail(lines))

\* list.insert(i, x) for 0 <= i <= len
ListInsert(lines, i, x) ==
    SubSeq(lines, 1, i) \o <<x>> \o SubSeq(lines, i + 1, Len(lines))

\* what a method of the editor does: the editor it leaves, the exception it
\* raises and, when it raises none, the result it returns
EditorRaised(e, exc) == [editor |-> e, exc |-> exc, ret |-> None]

EditorReturned(e, status, message, text, listing) ==
    [editor |-> e, exc |-> NoExc,
     ret |-> EditorResult("", root_path, status, message, text, listing)]

\* _path.glob("**/*") relative to _path, line 108-113
Listing(e, _path) ==
    LET at == resolve(_path).parts IN
    { SubSeq(q.parts, Len(at) + 1, Len(q.parts)) :
        q \in { d \in e.dirs \cup Keys(e.files) :
                    /\ Len(d.parts) > Len(at)
                    /\ SubSeq(d.parts, 1, Len(at)) = at } }

\* the view_range values a caller may pass: none, from the second line to
\* the end, and a start after the end
ViewRanges == { None, [t |-> "list", v |-> <<2, 0 - 1>>],
                [t |-> "list", v |-> <<9, 9>>] }

\* lines 119-134 of view: the text of a file, or the lines of view_range
ViewFile(e, _path, view_range) ==
    LET text == read_file(e, _path)
        lines == Split(text, <<>>)
    IN  IF view_range = None
        THEN EditorReturned(e, "success", <<"file">>, text, {})
        ELSE LET start == view_range.v[1]
                 end == view_range.v[2]
             IN  IF start < 1 \/ start > Len(lines)
                 THEN EditorRaised(e, Exc("ValueError", <<"Invalid start line">>))
                 ELSE IF end # 0 - 1 /\ (end < start \/ end > Len(lines))
                 THEN EditorRaised(e, Exc("ValueError", <<"Invalid end line">>))
                 ELSE EditorReturned(e, "success", <<"file">>,
                               Join(SubSeq(lines, start,
                                           IF end = 0 - 1 THEN Len(lines) ELSE end)),
                               {})

\* EditorTool.view, lines 99-134
view(e, path, view_range) ==
    LET _path == normalize_path(path)
        valid == EditorTool_validate_path(e, "view", _path)
    IN  IF valid.exc # NoExc THEN EditorRaised(valid.editor, valid.exc)
        ELSE IF is_dir(e, _path)
        THEN IF view_range # None
             THEN EditorRaised(e, Exc("ValueError", <<"view_range not allowed for directories">>))
             ELSE EditorReturned(e, "success", <<"directory">>, <<>>, Listing(e, _path))
        ELSE ViewFile(e, _path, view_range)

\* EditorTool.create, lines 136-142
create(e, path, text) ==
    LET _path == normalize_path(path)
        valid == EditorTool_validate_path(e, "create", _path)
    IN  IF valid.exc # NoExc THEN EditorRaised(valid.editor, valid.exc)
        ELSE LET written == write_file(valid.editor, _path, text) IN
             IF written.exc # NoExc THEN EditorRaised(written.editor, written.exc)
             ELSE EditorReturned(written.editor, "success", <<"File created">>, <<>>, {})

\* self._file_history[_path], a defaultdict(list)
History(e, _path) ==
    IF _path \in Keys(e._file_history) THEN Get(e._file_history, _path) ELSE <<>>

\* lines 164-169 and 191-197: the old text goes on the history of _path and
\* the new text is written
Edited_NoHistory(e, _path, old_text, new_text) == write_file(e, _path, new_text)

Edited(e, _path, old_text, new_text) ==
    write_file([e EXCEPT !._file_history =
                    Put(@, _path, Append(History(e, _path), old_text))],
               _path, new_text)

\* EditorTool.str_replace, lines 144-173
str_replace(e, path, old_str, new_str) ==
    LET _path == normalize_path(path)
        valid == EditorTool_validate_path(e, "str_replace", _path)
    IN  IF valid.exc # NoExc THEN EditorRaised(valid.editor, valid.exc)
        ELSE LET text == read_file(e, _path)
                 occurrences == Count(text, old_str)
             IN  IF occurrences = 0
                 THEN EditorReturned(e, "error", <<"String not found in file">>, <<>>, {})
                 ELSE IF occurrences > 1
                 THEN EditorReturned(e, "error", <<"Multiple occurrences found">>, <<>>, {})
                 ELSE LET written == Edited(e, _path, text, Replace(text, old_str, new_str)) IN
                      IF written.exc # NoExc THEN EditorRaised(written.editor, written.exc)
                      ELSE EditorReturned(written.editor, "success", <<"Replaced">>, <<>>, {})

\* EditorTool.insert, lines 175-201
insert(e, path, insert_line, new_str) ==
    LET _path == normalize_path(path)
        valid == EditorTool_validate_path(e, "insert", _path)
    IN  IF valid.exc # NoExc THEN EditorRaised(valid.editor, valid.exc)
        ELSE LET text == read_file(e, _path)
                 lines == Split(text, <<>>)
             IN  IF insert_line < 0 \/ insert_line > Len(lines)
                 THEN EditorReturned(e, "error", <<"Invalid insert line">>, <<>>, {})
                 ELSE LET written == Edited(e, _path, text,
                                            Join(ListInsert(lines, insert_line, new_str))) IN
                      IF written.exc # NoExc THEN EditorRaised(written.editor, written.exc)
                      ELSE EditorReturned(written.editor, "success", <<"Inserted text">>, <<>>, {})

\* EditorTool.undo_edit, lines 203-218
undo_edit(e, path) ==
    LET _path == normalize_path(path)
        valid == EditorTool_validate_path(e, "undo_edit", _path)
        history == History(e, _path)
    IN  IF valid.exc # NoExc THEN EditorRaised(valid.editor, valid.exc)
        ELSE IF history = <<>>
        THEN EditorReturned(e, "error", <<"No edit history available">>, <<>>, {})
        ELSE LET written ==
                    write_file([e EXCEPT !._file_history =
                                    Put(@, _path, SubSeq(history, 1, Len(history) - 1))],
                               _path, history[Len(history)]) IN
             IF written.exc # NoExc THEN EditorRaised(written.editor, written.exc)
             ELSE EditorReturned(written.editor, "success", <<"Last edit undone">>, <<>>, {})

IsEditor == variant = "editor"

notEditor == <<variant, pc, obsVars, runVars, turnVars, loopVars, mainVars,
               shell, tool_manager>>

\* the end of EditorTool.__call__, lines 246-270: what the method returned,
\* or the error made of the exception it raised
EditsOf(e, file) == IF file \in Keys(e.edits) THEN Get(e.edits, file) ELSE <<>>

EditsAfter(command, path, out) ==
    LET _path == normalize_path(path)
        file == resolve(_path)
        before == EditsOf(editor, file)
        ok == out.exc = NoExc /\ out.ret.status = "success"
    IN  IF ok /\ command \in {"str_replace", "insert"}
        THEN Put(editor.edits, file, Append(before, read_file(editor, _path)))
        ELSE IF ok /\ command = "undo_edit" /\ before # <<>>
        THEN Put(editor.edits, file, SubSeq(before, 1, Len(before) - 1))
        ELSE editor.edits

EditorCalled(command, path, out) ==
    /\ editor' = [out.editor EXCEPT
                    !.calls = @ + 1,
                    !.edits = EditsAfter(command, path, out),
                    !.result =
                        IF out.exc # NoExc
                        THEN EditorResult(command, path, "error", out.exc.msg, <<>>, {})
                        ELSE [out.ret EXCEPT !.command = command, !.path = path]]
    /\ UNCHANGED notEditor

\* __call__(command="view", ...), lines 247-248
EditorView(path, view_range) ==
    /\ IsEditor
    /\ editor.calls < MaxEdits
    /\ EditorCalled("view", path, view(editor, path, view_range))

\* __call__(command="create", ...), lines 249-254
EditorCreate(path, file_text) ==
    /\ IsEditor
    /\ editor.calls < MaxEdits
    /\ EditorCalled("create", path,
                    IF file_text = None
                    THEN EditorRaised(editor, Exc("ValueError", <<"Parameter file_text is required">>))
                    ELSE create(editor, path, file_text.s))

\* __call__(command="str_replace", ...), lines 255-260
EditorStrReplace(path, old_str, new_str) ==
    /\ IsEditor
    /\ editor.calls < MaxEdits
    /\ EditorCalled("str_replace", path,
                    IF old_str = None \/ new_str = None
                    THEN EditorRaised(editor, Exc("ValueError", <<"Parameters old_str and new_str are required">>))
                    ELSE str_replace(editor, path, old_str.s, new_str.s))

\* __call__(command="insert", ...), lines 261-266
EditorInsert(path, insert_line, new_str) ==
    /\ IsEditor
    /\ editor.calls < MaxEdits
    /\ EditorCalled("insert", path,
                    IF insert_line = None \/ new_str = None
                    THEN EditorRaised(editor, Exc("ValueError", <<"Parameters insert_line and new_str are required">>))
                    ELSE insert(editor, path, insert_line.n, new_str.s))

\* __call__(command="undo_edit", ...), lines 267-268
EditorUndoEdit(path) ==
    /\ IsEditor
    /\ editor.calls < MaxEdits
    /\ EditorCalled("undo_edit", path, undo_edit(editor, path))

\* __call__ with a command that is none of the five, lines 241-244
EditorUnknownCommand(path) ==
    /\ IsEditor
    /\ editor.calls < MaxEdits
    /\ EditorCalled("rename", path,
                    EditorReturned(editor, "error", <<"Unknown command">>, <<>>, {}))

\* the arguments a caller may pass, None for one it leaves out
OldStrs == {PyStr(s) : s \in OldTexts}

NewStrs == {None} \cup {PyStr(s) : s \in NewTexts}

InsertLines == {None} \cup {[t |-> "int", n |-> n] : n \in {1, 5}}

(* agents.py: ToolManager._generate_tool_definitions *)

\* the most parameters of the custom tool function
MaxParams == 2

\* an annotation or a default of inspect.Parameter: a class, a value, or
\* inspect.Parameter.empty when the signature has none
Class(name) == [t |-> "class", name |-> name]

Empty == [t |-> "empty"]

\* the annotations a parameter may have: the classes int, float, bool, list,
\* dict and str, none, and the text 'int' of a quoted annotation
Annotations ==
    {Class(name) : name \in {"int", "float", "bool", "list", "dict", "str"}}
        \cup {Empty, PyStr(<<"int">>)}

\* the defaults a parameter may have: none, None and 0
Defaults == {Empty, None, PyInt(<<"0">>)}

ParamNames == <<"query", "limit", "flag">>

\* inspect.signature(func).parameters, in order
Signatures ==
    UNION { [1..n -> [annotation : Annotations, default : Defaults]]
                : n \in 0..MaxParams }

\* inspect.getdoc(func): None, or the lines of the docstring
Docstrings == { None, PyStr(<<"Searches.", "\n", "Returns text.">>) }

\* ToolManager._load_tools, lines 307-317: search is the custom tool
ToolManager(doc, sig) ==
    [search |-> [doc |-> doc, sig |-> sig], _tool_definitions |-> <<>>]

\* lines 362-367: the schema type of an annotation
ParamType_BoolIsInteger(annotation) ==
    IF annotation \in {Class("int"), Class("bool")} THEN "integer"
    ELSE IF annotation = Class("float") THEN "number"
    ELSE IF annotation = Class("list") THEN "array"
    ELSE IF annotation = Class("dict") THEN "object"
    ELSE "string"

ParamType(annotation) ==
    IF annotation = Class("int") THEN "integer"
    ELSE IF annotation = Class("float") THEN "number"
    ELSE IF annotation = Class("bool") THEN "boolean"
    ELSE IF annotation = Class("list") THEN "array"
    ELSE IF annotation = Class("dict") THEN "object"
    ELSE "string"

\* line 368: properties[param_name]
Properties(sig) ==
    { [k |-> ParamNames[i],
       v |-> [type |-> ParamType(sig[i].annotation),
              description |-> <<"Parameter '", ParamNames[i], "'">>]]
        : i \in 1..Len(sig) }

\* lines 369-370: the names of the parameters without default, in order
RECURSIVE Required(_, _)
Required(sig, i) ==
    IF i > Len(sig) THEN <<>>
    ELSE (IF sig[i].default = Empty THEN <<ParamNames[i]>> ELSE <<>>)
            \o Required(sig, i + 1)

\* a tool definition
Definition(name, description, properties, required) ==
    [name |-> name, description |-> description,
     input_schema |-> [type |-> "object", properties |-> properties,
                       required |-> required]]

\* lines 322-349: the definitions of the built-in tools
BuiltinDefinition(name, param) ==
    Definition(name, <<name>>,
               {[k |-> param, v |-> [type |-> "string", description |-> <<param>>]]},
               <<param>>)

\* docstring.split('\n')[0], lines 356 and 374
FirstLine(doc, name) ==
    IF doc = None THEN <<"Executes the ", name, " tool.">>
    ELSE Split(doc.s, <<>>)[1]

\* lines 352-376: the definition of a custom tool
CustomDefinition(name, func) ==
    Definition(name, FirstLine(func.doc, name), Properties(func.sig),
               Required(func.sig, 1))

IsTools == variant = "tools"

\* ToolManager._generate_tool_definitions, lines 318-378
GenerateToolDefinitions ==
    /\ IsTools
    /\ tool_manager._tool_definitions = <<>>
    /\ tool_manager' =
            [tool_manager EXCEPT !._tool_definitions =
                << BuiltinDefinition("execute_python", "code"),
                   BuiltinDefinition("update_plan", "plan_markdown"),
                   BuiltinDefinition("record_findings", "findings_markdown"),
                   BuiltinDefinition("final_answer", "result"),
                   CustomDefinition("search", tool_manager.search) >>]
    /\ UNCHANGED <<variant, pc, obsVars, runVars, turnVars, loopVars, mainVars,
                   shell, editor>>

(* The specification *)

\* the state after construction, for the entry point that is run
InitState(entry) ==
    /\ variant = entry
    /\ pc = (IF IsLoop THEN "idle" ELSE "loop")
    /\ providerCalls = 0
    /\ summaryCalls = 0
    /\ failedCalls = 0
    /\ lastDispatch = NoDispatch
    /\ turnLog = <<>>
    /\ noToolTurn = <<>>
    /\ doneAt = 0
    /\ iterations = 0
    /\ message_history = <<Message("user", <<[type |-> "plain"]>>)>>
    /\ is_done = FALSE
    /\ final_answer = None
    /\ plan = PLAN_TEMPLATE
    /\ findings = FINDINGS_TEMPLATE
    /\ globals_locals = InitialGlobals
    /\ outcome = "none"
    /\ content = <<>>
    /\ idx = 1
    /\ emitted = 0
    /\ max_steps \in (IF variant = "process_loop" THEN 1..MaxSteps
                      ELSE IF IsAgent THEN 1..MaxAgentSteps ELSE {0})
    /\ step_count = 0
    /\ registry = <<>>
    /\ conversation = <<>>
    /\ turn_count = 0
    /\ final_turn = FALSE
    /\ tool_used = FALSE
    /\ tool_calls = <<>>
    /\ callIdx = 1
    /\ ret = None
    /\ current_iteration = 0
    /\ task_completed = FALSE
    /\ conversation_history = <<PlainMessage("user", <<"task">>)>>
    /\ shell \in (IF variant = "shell"
                  THEN {ShellTool(callers, ids) :
                            callers \in Callers, ids \in {{"s1"}, SessionIds}}
                  ELSE {None})
    /\ editor = (IF variant = "editor" THEN EditorTool ELSE None)
    /\ tool_manager \in (IF variant = "tools"
                         THEN {ToolManager(doc, sig) : doc \in Docstrings,
                                                       sig \in Signatures}
                         ELSE {None})

Init == \E entry \in {"run", "process_loop", "main"} : InitState(entry)

Next ==
    \/ RunCallLLM
    \/ RunLLMFailed
    \/ RunTextBlock
    \/ RunToolUseBlock
    \/ RunEndTurn
    \/ RunFinish
    \/ AddTool
    \/ DirectExecuteTool
    \/ BeginProcessLoop
    \/ LoopLLMError
    \/ LoopSummaryResponse
    \/ LoopResponse
    \/ LoopToolCall
    \/ LoopEndCalls
    \/ LoopExit
    \/ PostLoopSummary
    \/ PostLoopReturn
    \/ MainCallLLM
    \/ MainLLMRaises
    \/ MainTextBlock
    \/ MainToolUseBlock
    \/ MainEndTurn
    \/ MainFinish

Spec == Init /\ [][Next]_vars

\* Agent.run when the provider asks for execute_python with the code
\* fragments of Fragments
InitExec == InitState("run_code")

NextExec ==
    \/ RunCallLLM
    \/ RunLLMFailed
    \/ RunTextBlock
    \/ RunToolUseBlock
    \/ RunEndTurn
    \/ RunFinish

SpecExec == InitExec /\ [][NextExec]_vars

\* run, process_loop and reset called in any order on one agent/agent.py
\* Agent
InitAgent == InitState("agent")

NextAgent ==
    \/ AddTool
    \/ AgentRunRefused
    \/ AgentRun
    \/ AgentReset
    \/ AgentNextCall
    \/ BeginProcessLoop
    \/ LoopLLMError
    \/ LoopSummaryResponse
    \/ LoopResponse
    \/ LoopToolCall
    \/ LoopEndCalls
    \/ LoopExit
    \/ PostLoopSummary
    \/ PostLoopReturn

SpecAgent == InitAgent /\ [][NextAgent]_vars

\* one ShellTool, its callers and its child processes
InitShell == InitState("shell") /\ DOMAIN shell.sessions = {"s1"}

NextShell ==
    \/ \E t \in Callers, id \in SessionIds, exec_dir \in ExecDirs :
           ShellExecBegin(t, id, exec_dir)
    \/ \E t \in Callers : ShellExecPopen(t)
    \/ \E t \in Callers : ShellExecStore(t)
    \/ \E t \in Callers, id \in SessionIds : ShellKillBegin(t, id)
    \/ \E t \in Callers : ShellKillLookup(t)
    \/ \E t \in Callers : ShellKillTerminate(t)
    \/ \E t \in Callers : ShellKillMark(t)
    \/ \E t \in Callers, id \in SessionIds : ShellViewBegin(t, id)
    \/ \E t \in Callers : ShellViewPoll(t)
    \/ \E t \in Callers : ShellViewReadline(t)
    \/ \E t \in Callers : ShellViewAppend(t)
    \/ \E t \in Callers : ShellViewFinish(t)
    \/ \E t \in Callers, id \in SessionIds, seconds \in WaitSeconds :
           ShellWaitBegin(t, id, seconds)
    \/ \E t \in Callers : ShellWaitPoll(t)
    \/ \E t \in Callers : ShellWaitReadline(t)
    \/ \E t \in Callers : ShellWaitAppend(t)
    \/ \E t \in Callers : ShellWaitTimeout(t)
    \/ \E t \in Callers : ShellWaitRest(t)
    \/ \E t \in Callers : ShellWaitRestAppend(t)
    \/ \E t \in Callers, id \in SessionIds, press_enter \in BOOLEAN :
           ShellWriteBegin(t, id, press_enter)
    \/ \E t \in Callers : ShellWritePoll(t)
    \/ \E t \in Callers : ShellWriteSend(t)
    \/ \E t \in Callers, kwargs \in CallKwargs : ShellCall(t, kwargs)
    \/ \E p \in 1..MaxProcesses : ProcessWrites(p)
    \/ \E p \in 1..MaxProcesses : ProcessExits(p)

SpecShell == InitShell /\ [][NextShell]_vars

\* one ShellTool with one caller: its methods are called one after another
InitShellOne == InitShell /\ shell.callers = 1

SpecShellOne == InitShellOne /\ [][NextShell]_vars

\* one ShellTool with one caller and the session ids s1 and s2
InitShellTwo ==
    /\ InitState("shell")
    /\ shell.callers = 1
    /\ DOMAIN shell.sessions = SessionIds

SpecShellTwo == InitShellTwo /\ [][NextShell]_vars

\* the editor alone: every call is one step
InitEditor == InitState("editor")

NextEditor ==
    \/ \E path \in EditorPaths, view_range \in ViewRanges :
            EditorView(path, view_range)
    \/ \E path \in EditorPaths, file_text \in {None} \cup {PyStr(s) : s \in FileTexts} :
            EditorCreate(path, file_text)
    \/ \E path \in EditorPaths, old_str \in OldStrs, new_str \in NewStrs :
            EditorStrReplace(path, old_str, new_str)
    \/ \E path \in EditorPaths, insert_line \in InsertLines :
            EditorInsert(path, insert_line, PyStr(<<"c">>))
    \/ \E path \in EditorPaths : EditorUndoEdit(path)
    \/ EditorUnknownCommand(root_path)

SpecEditor == InitEditor /\ [][NextEditor]_vars

\* a ToolManager whose custom tool has one of the signatures of Signatures
InitTools == InitState("tools")

NextTools == GenerateToolDefinitions

SpecTools == InitTools /\ [][NextTools]_vars

---------------------------------------------------------------------------
(* Reading the histories *)

\* the positions <<message, block>> of the blocks of one type under one role
BlocksOf(h, role, type) ==
    UNION { { <<i, k>> : k \in {k \in 1..Len(h[i].content) :
                                    /\ h[i].role = role
                                    /\ h[i].content[k].type = type} }
            : i \in 1..Len(h) }

ToolUsesIn(h) == BlocksOf(h, "assistant", "tool_use")

ToolResultsIn(h) == BlocksOf(h, "user", "tool_result")

BlockAt(h, pos) == h[pos[1]].content[pos[2]]

\* the ids of the tool_use blocks of a response, in order
RECURSIVE ToolUseIds(_)
ToolUseIds(blocks) ==
    IF blocks = <<>> THEN <<>>
    ELSE IF Head(blocks).type = "tool_use"
    THEN <<Head(blocks).id>> \o ToolUseIds(Tail(blocks))
    ELSE ToolUseIds(Tail(blocks))

\* the tool_use_ids of the last n messages of the history
TailResultIds(h, n) ==
    [i \in 1..n |-> LET m == h[Len(h) - n + i] IN
                    IF m.role = "user" /\ m.content[1].type = "tool_result"
                    THEN m.content[1].tool_use_id ELSE 0]

\* the text of the latest assistant turn of process_loop's conversation
CurrentText ==
    LET i == CHOOSE i \in 1..Len(conversation) :
                /\ conversation[i].role = "assistant"
                /\ \A j \in (i + 1)..Len(conversation) :
                        conversation[j].role # "assistant"
    IN  conversation[i].content.segs

\* where the text first names a tool
FirstPos(text, name) ==
    CHOOSE i \in 1..Len(text) :
        /\ text[i].name = name
        /\ \A j \in 1..(i - 1) : text[j].name # name

\* the final_answer requests of the history that bind the parameter result
FinalAnswerUses ==
    { BlockAt(message_history, pos) : pos \in
        { q \in ToolUsesIn(message_history) :
            /\ BlockAt(message_history, q).name = "final_answer"
            /\ Keys(BlockAt(message_history, q).input) = {"result"} } }

\* the ceiling of the entry point
Ceiling ==
    CASE variant = "run" -> max_iterations
      [] variant = "main" -> main_max_iterations
      [] OTHER -> max_steps

\* is the value an error result of the engine that returned it
IsErrorResult(engine, r) ==
    IF engine = "ToolManager"
    THEN r.t = "str" /\ StartsWith(r.s, <<"Error">>)
    ELSE r.t = "dict" /\ "error" \in DOMAIN r

\* the text of an error result
ErrorText(r) == IF r.t = "str" THEN r.s ELSE r.error.s

---------------------------------------------------------------------------
(* The claims *)

\* C1: when Agent.run has ended, every final_answer dispatched with
\* result = v left the done flag set and v as the recorded final answer, and
\* no provider call was issued after the iteration that dispatched it.
C1_FinalAnswerIsRunResult ==
    (variant = "run" /\ pc = "finished") =>
        \A b \in FinalAnswerUses :
            /\ is_done
            /\ final_answer = Get(b.input, "result")
            /\ providerCalls = doneAt

\* C2: no run of an orchestration loop issues more than ceiling + 1 provider
\* calls, the ceiling being 15 in Agent.run, 10 in main and max_steps in
\* process_loop.
C2_ProviderCallsBounded == providerCalls <= Ceiling + 1

\* C2 witness: a process_loop with max_steps >= 2 has returned after the
\* summary call that follows the turn ceiling, max_steps calls in all.
C2_Witness ==
    /\ variant = "process_loop" /\ pc = "returned"
    /\ max_steps >= 2
    /\ summaryCalls = 1
    /\ providerCalls = max_steps

\* C3: whenever Agent.run is about to call the provider, every tool_use
\* block of the history has exactly one tool_result with its id, in a later
\* message, and every tool_result answers exactly one earlier tool_use block.
C3_ResultsMatchRequests ==
    (variant = "run" /\ pc = "loop" /\ RunLoopCond) =>
        LET h == message_history IN
        /\ \A u \in ToolUsesIn(h) :
            LET answers == {r \in ToolResultsIn(h) :
                                BlockAt(h, r).tool_use_id = BlockAt(h, u).id}
            IN  /\ Cardinality(answers) = 1
                /\ \A r \in answers : r[1] > u[1]
        /\ \A r \in ToolResultsIn(h) :
            Cardinality({u \in ToolUsesIn(h) :
                            /\ BlockAt(h, u).id = BlockAt(h, r).tool_use_id
                            /\ u[1] < r[1]}) = 1

\* C3 witness: the provider is about to be called again after a turn that
\* held two tool_use blocks.
C3_Witness ==
    /\ variant = "run" /\ pc = "loop" /\ RunLoopCond
    /\ Cardinality(ToolUsesIn(message_history)) = 2
    /\ Len(message_history) = 4

\* C4: within a turn the dispatches are made in the order the model emitted
\* the invocations, each result appended before the next dispatch: in
\* Agent.run the order of the tool_use blocks, in process_loop the order in
\* which the calls appear in the response text.
C4_DispatchInEmissionOrder ==
    /\ (variant = "run" /\ pc = "blocks") =>
            /\ turnLog = ToolUseIds(SubSeq(content, 1, idx - 1))
            /\ TailResultIds(message_history, Len(turnLog)) = turnLog
    /\ (variant = "process_loop" /\ pc = "calls") =>
            \A i, j \in 1..Len(turnLog) :
                i < j => FirstPos(CurrentText, turnLog[i])
                            < FirstPos(CurrentText, turnLog[j])

\* C5: a failed provider call ends the loop at once and the outcome is
\* reported as a failure: process_loop returns a status other than success,
\* Agent.run does not report completion.
C5_ProviderFailureReported ==
    /\ (variant = "process_loop" /\ pc = "returned" /\ failedCalls > 0) =>
            /\ ret.status # "success"
            /\ failedCalls = 1
    /\ (variant = "run" /\ pc = "finished" /\ failedCalls > 0) =>
            /\ outcome # "completed"
            /\ failedCalls = 1

\* C6: when process_loop has returned after a turn whose response held no
\* tool invocation: if no tool had been used, that turn's provider call was
\* the last; if one had, exactly one more call was made, with the summary
\* prompt.
C6_NoToolTurnEndsLoop ==
    (variant = "process_loop" /\ pc = "returned" /\ noToolTurn # <<>>) =>
        IF noToolTurn[1].used
        THEN providerCalls = noToolTurn[1].calls + 1 /\ summaryCalls = 1
        ELSE providerCalls = noToolTurn[1].calls /\ summaryCalls = 0

\* C7: a loop that reaches its ceiling unfinished makes exactly one more
\* provider call, with the summary prompt, and the outcome carries an
\* answer: process_loop's status success implies a final_response.
C7_CeilingForcesSummary ==
    /\ (variant = "process_loop" /\ pc = "returned" /\ ret.status = "success") =>
            ret.final_response # None
    /\ (variant = "run" /\ pc = "finished" /\ ~is_done
            /\ iterations >= max_iterations /\ failedCalls = 0) =>
            summaryCalls = 1

\* C8: a dispatch of a name that is not registered returns an error result
\* that contains the name, enters no handler and leaves the registry and
\* the execution state as they were.
C8_UnknownToolIsError ==
    [][ (/\ lastDispatch'.tick # lastDispatch.tick
         /\ lastDispatch'.engine # ""
         /\ ~lastDispatch'.known) =>
            /\ IsErrorResult(lastDispatch'.engine, lastDispatch'.result)
            /\ lastDispatch'.name \in Range(ErrorText(lastDispatch'.result))
            /\ ~lastDispatch'.invoked
            /\ registry' = registry
            /\ <<plan, findings, is_done, final_answer, globals_locals>>'
                    = <<plan, findings, is_done, final_answer, globals_locals>>
      ]_vars

\* C8 witness: Agent.run has dispatched a name ToolManager does not know.
C8_Witness ==
    /\ variant = "run"
    /\ lastDispatch.engine = "ToolManager"
    /\ lastDispatch.name = "nosuch"
    /\ ~lastDispatch.known

\* C9: a fault raised under execute_tool comes back as an error result that
\* carries the fault's type name and its message.
C9_FaultCarriesTypeAndMessage ==
    lastDispatch.exc # NoExc =>
        /\ IsErrorResult(lastDispatch.engine, lastDispatch.result)
        /\ lastDispatch.exc.type \in Range(ErrorText(lastDispatch.result))
        /\ Range(lastDispatch.exc.msg) \subseteq Range(ErrorText(lastDispatch.result))

\* C10: the tool_result Agent.run appends for a dispatch is tagged is_error
\* exactly when the dispatch failed (unknown name, arguments that do not fit,
\* a handler exception, a sandbox fault), and the loop goes on.
C10_IsErrorIffFailed ==
    (variant = "run" /\ pc = "blocks" /\ turnLog # <<>>) =>
        LET last == message_history[Len(message_history)].content[1] IN
        /\ last.type = "tool_result"
        /\ last.is_error = lastDispatch.failed

\* C11: a handler that is entered is given only arguments its schema
\* declares, and a user-supplied tool (every registry.py Tool, and search in
\* ToolManager) is given neither the StateManager nor the CodeExecutor.
C11_HandlerGetsDeclaredArgsOnly ==
    lastDispatch.invoked =>
        IF lastDispatch.engine = "ToolRegistry"
        THEN lastDispatch.received \subseteq ToolParameters(lastDispatch.name)
        ELSE /\ (lastDispatch.received \ InjectedDependencies(lastDispatch.name))
                    \subseteq ParamsOf(lastDispatch.name)
             /\ lastDispatch.name = "search" =>
                    lastDispatch.received \cap {"state_manager", "code_executor"} = {}

\* C12: CodeExecutor.execute returns for every fragment: whatever the
\* fragment raised while it was compiled or run is reported in the error
\* field as "<TypeName>: <message>", nothing goes on to the caller, and
\* Agent.run is not ended by it.
C12_ExecuteAlwaysReturns ==
    /\ IsRun => pc # "crashed"
    /\ lastDispatch.exec.ran =>
        LET e == lastDispatch.exec.ret IN
        /\ e.escaped = NoExc
        /\ e.exc # NoExc => e.error = PyStr(<<e.exc.type, ": ">> \o e.exc.msg)
        /\ e.exc = NoExc => e.error = None

\* the statements of a fragment that bind name: position i binds it for good
\* when everything up to i is an assignment of a literal (which cannot
\* fault) and no later statement binds or unbinds the name
BindsForGood(stmts, i) ==
    /\ \A j \in 1..i : stmts[j].op = "assign"
    /\ \A j \in (i + 1)..Len(stmts) :
            stmts[j].op \in {"assign", "new", "copy", "del"} => stmts[j].name # stmts[i].name

\* C13: a name bound by an execute_python call, also when the fragment faults
\* after the binding, stays bound to that value in the scope of the later
\* calls until a fragment binds it again or deletes it: the call that bound
\* it returns a scope delta that maps the name to the value, nothing but an
\* execute_python call changes the scope, and a later fragment print(x)
\* yields the value's text and a newline on stdout.
C13_BindingsPersist ==
    /\ [](lastDispatch.exec.ran /\ lastDispatch.exec.ret.escaped = NoExc =>
            LET e == lastDispatch.exec
                stmts == e.code.stmts
            IN  /\ globals_locals = e.ret.scope
                /\ \A i \in 1..Len(stmts) : BindsForGood(stmts, i) =>
                    LET n == stmts[i].name
                        v == stmts[i].val
                    IN  /\ n \in Keys(globals_locals)
                        /\ Get(globals_locals, n) = v
                        /\ (n \notin Keys(e.before) \/ Get(e.before, n) # v)
                                => [k |-> n, v |-> v] \in e.ret.updated_globals
                /\ (stmts # <<>> /\ stmts[1].op = "print"
                        /\ stmts[1].name \in Keys(e.before)) =>
                    /\ e.ret.error = None
                    /\ e.ret.stdout = Str(Get(e.before, stmts[1].name)) \o <<"\n">>)
    /\ [][ /\ globals_locals' # globals_locals =>
                /\ lastDispatch'.tick # lastDispatch.tick
                /\ lastDispatch'.exec.ran
           /\ (lastDispatch'.tick # lastDispatch.tick /\ lastDispatch'.exec.ran) =>
                lastDispatch'.exec.before = globals_locals
         ]_vars

\* C13 witness: in one turn, a fragment bound x to 7 and then raised
\* ValueError, and the next call's print(x) has put 7 on stdout.
C13_Witness ==
    /\ variant = "run_code" /\ pc = "blocks" /\ idx = 3
    /\ content[1].type = "tool_use"
    /\ Get(content[1].input, "code")
            = Code(<<Assign("x", PyInt("7")), Raise("ValueError", <<"boom">>)>>)
    /\ content[2].type = "tool_use"
    /\ Get(content[2].input, "code") = Code(<<PrintName("x")>>)
    /\ lastDispatch.exec.ret.stdout = <<"7", "\n">>
    /\ lastDispatch.exec.ret.error = None

\* C14: the scope delta execute returns holds exactly the entries of the
\* scope after the run whose key was not in the scope before the run or
\* whose value is not the object it was before the run, but for __builtins__
\* when it was there before and equals what it was.
C14_DeltaIsExactlyTheChanges ==
    (lastDispatch.exec.ran /\ lastDispatch.exec.ret.escaped = NoExc) =>
        LET before == lastDispatch.exec.before
            after == lastDispatch.exec.ret.scope
            builtins_unchanged ==
                /\ "__builtins__" \in Keys(before)
                /\ "__builtins__" \in Keys(after)
                /\ PyEq(Get(after, "__builtins__"), Get(before, "__builtins__"))
        IN  lastDispatch.exec.ret.updated_globals =
                {e \in after :
                    /\ e.k \notin Keys(before) \/ Get(before, e.k) # e.v
                    /\ ~(e.k = "__builtins__" /\ builtins_unchanged)}

\* C14 witness: a fragment has rebound __builtins__ to an equal copy of
\* itself, and the delta returned is empty.
C14_Witness ==
    /\ lastDispatch.exec.ran
    /\ lastDispatch.exec.code = Code(<<AssignCopy("__builtins__")>>)
    /\ "__builtins__" \in Keys(lastDispatch.exec.before)
    /\ Get(lastDispatch.exec.ret.scope, "__builtins__")
            # Get(lastDispatch.exec.before, "__builtins__")
    /\ lastDispatch.exec.ret.updated_globals = {}

\* C15: when an execute call changes an entry that was in the scope before
\* the task started (a module, an injected tool function), the call returns
\* and the entry's name is in the scope delta it returns.
C15_PreloadedOverwriteIsVisible ==
    lastDispatch.exec.ran =>
        LET before == lastDispatch.exec.before
            after == lastDispatch.exec.ret.scope
        IN  \A n \in Keys(InitialGlobals) \cap Keys(before) :
                (n \notin Keys(after) \/ Get(after, n) # Get(before, n)) =>
                    /\ lastDispatch.exec.ret.escaped = NoExc
                    /\ n \in Keys(lastDispatch.exec.ret.updated_globals)

\* C16: a child process is only ever spawned in a working directory that
\* resolves to the root directory or to a descendant of it; for every other
\* exec_dir shell_exec spawns nothing.
C16_SpawnedUnderRootOnly ==
    IsShell =>
        \A p \in 1..Len(shell.processes) :
            UnderRoot_ByComponents(shell.processes[p].cwd)

\* C17: with one caller, shell_exec on an id whose session holds a live
\* process has ended that process before it spawns the new one, and when it
\* returns success the table entry of the id is the process just spawned,
\* with running true and an empty output buffer, and the process held
\* before is not alive.
C17_ExecSupersedes ==
    /\ [](IsShell =>
            \A t \in 1..shell.callers :
                LET c == shell.caller[t] IN
                (c.at \in {"exec_popen", "exec_store"} /\ c.before # 0)
                    => ~Alive(c.before))
    /\ [][IsShell =>
            \A t \in 1..shell.callers :
                LET c == shell.caller[t] IN
                (c.at = "exec_store" /\ shell'.caller[t].at = "idle") =>
                    /\ shell'.caller[t].result.status = "success"
                    /\ shell'.sessions[c.id] = Len(shell'.processes)
                    /\ shell'.sessions[c.id] # c.before
                    /\ shell'.processes[shell'.sessions[c.id]].running
                    /\ shell'.processes[shell'.sessions[c.id]].output = <<>>
                    /\ c.before # 0 => ~shell'.processes[c.before].alive]_vars

\* shell_exec has returned success for an id whose first process was alive
\* when the second shell_exec ended it
C17_Witness ==
    /\ IsShell
    /\ shell.callers = 1
    /\ shell.calls = 2
    /\ Len(shell.processes) = 2
    /\ shell.caller[1].at = "idle"
    /\ shell.caller[1].result.op = "exec"
    /\ shell.caller[1].result.status = "success"
    /\ shell.processes[1].exit_code = PyInt(<<"-15">>)
    /\ shell.sessions["s1"] = 2

\* C18: whenever no shell method is in progress, however the calls of the
\* callers were interleaved, every live child process spawned for an id is
\* the process the session table holds for that id: at most one is alive
\* and none is left without a table entry.
C18_OneLiveProcessPerId ==
    (IsShell /\ \A t \in 1..shell.callers : shell.caller[t].at = "idle") =>
        \A p \in 1..Len(shell.processes) :
            Alive(p) => shell.sessions[shell.processes[p].id] = p

\* C19: the output buffer of a session holds each line its process has
\* written at most once and in the order the process wrote them, however
\* shell_view and shell_wait on the session are interleaved.
C19_OutputInEmissionOrder ==
    IsShell =>
        \A p \in 1..Len(shell.processes) :
            LET output == shell.processes[p].output IN
            \A i, j \in 1..Len(output) : i < j => output[i] < output[j]

\* C20: shell_view never waits: a caller that has reached the readline of
\* shell_view can always take its next step, also when the process is alive
\* and has written nothing that is still unread.
C20_ViewNeverWaits ==
    IsShell =>
        \A t \in 1..shell.callers :
            shell.caller[t].at = "view_readline" => ENABLED ShellViewReadline(t)

\* C21: when shell_wait returns, its status is "timeout" only if the
\* process is still alive at that moment, and if the process has exited by
\* then the status is "success" with the exit code of the process.
C21_WaitReportsTimeoutOrExit ==
    [][IsShell =>
        \A t \in 1..shell.callers :
            LET c == shell.caller[t]
                r == shell'.caller[t].result
            IN  (c.at \in {"wait_timeout", "wait_rest"}
                 /\ shell'.caller[t].at = "idle") =>
                    /\ r.status = "timeout" => shell'.processes[c.process].alive
                    /\ ~shell'.processes[c.process].alive =>
                          /\ r.status = "success"
                          /\ r.exit_code = shell'.processes[c.process].exit_code]_vars

\* C22: shell_wait does not wait for the process to write: a caller that
\* has reached the readline of shell_wait can always take its next step,
\* also when the process is alive and silent, so that the deadline test is
\* reached while the process is still running.
C22_WaitGetsToItsDeadline ==
    IsShell =>
        \A t \in 1..shell.callers :
            shell.caller[t].at = "wait_readline" => ENABLED ShellWaitReadline(t)

\* the lines 1..n in the order they were written
LinesUpTo(n) == [i \in 1..n |-> i]

C24_WriteSendsExactlyTheText ==
    [][IsShell =>
        \A t \in 1..shell.callers :
            LET c == shell.caller[t]
                r == shell'.caller[t].result
                sent == IF c.press_enter THEN Input \o <<"\n">> ELSE Input
            IN  (c.at \in {"write_poll", "write_send"}
                 /\ shell'.caller[t] # c) =>
                    /\ shell'.sessions = shell.sessions
                    /\ IF shell.processes[c.process].alive
                       THEN \/ /\ shell'.caller[t].at = "write_send"
                               /\ shell'.processes = shell.processes
                            \/ /\ shell'.caller[t].at = "idle"
                               /\ r.status = "success"
                               /\ shell'.processes =
                                    [shell.processes EXCEPT
                                        ![c.process].stdin = @ \o sent]
                       ELSE /\ shell'.caller[t].at = "idle"
                            /\ r.status = "error"
                            /\ shell'.processes = shell.processes]_vars

\* a write without and then a write with press_enter have been sent to a
\* live process and have returned success
C24_Witness ==
    /\ IsShell
    /\ shell.callers = 1
    /\ Len(shell.processes) = 1
    /\ shell.processes[1].stdin = <<"y", "y", "\n">>
    /\ shell.processes[1].alive
    /\ shell.caller[1].at = "idle"
    /\ shell.caller[1].result.op = "write"
    /\ shell.caller[1].result.status = "success"

\* C25: with one caller, shell_kill_process always returns a result: success
\* for a session the table has, with its process ended and its running flag
\* false, and the error that the session does not exist for an unknown id;
\* a second call returns the same; the running flag of a session whose
\* process has ended stays false once it is false.
C25_KillIsIdempotent ==
    /\ [](IsShell =>
            \A t \in 1..shell.callers :
                LET r == shell.caller[t].result
                    s == shell.sessions["s1"]
                IN  (shell.caller[t].at = "idle" /\ r.op = "kill") =>
                        IF s = 0 THEN r.status = "error"
                        ELSE /\ r.status = "success"
                             /\ ~shell.processes[s].alive
                             /\ ~shell.processes[s].running)
    /\ [][IsShell =>
            \A id \in DOMAIN shell.sessions :
                LET s == shell.sessions[id] IN
                (s # 0 /\ shell'.sessions[id] = s
                 /\ ~shell.processes[s].alive /\ ~shell.processes[s].running)
                    => ~shell'.processes[s].running]_vars

\* the first shell_kill_process has ended a live process and returned
\* success, the second one has found the process ended and is about to
\* return
C25_Witness ==
    /\ IsShell
    /\ shell.callers = 1
    /\ shell.calls = 3
    /\ shell.caller[1].at = "kill_mark"
    /\ ~shell.caller[1].nested
    /\ shell.caller[1].result.op = "kill"
    /\ shell.caller[1].result.status = "success"
    /\ shell.processes[shell.caller[1].process].exit_code = PyInt(<<"-15">>)
    /\ ~shell.processes[shell.caller[1].process].running

\* C26: when shell_view, shell_wait, shell_write_to_process or
\* shell_kill_process returns after its poll() has found the process of the
\* session ended, the session is marked not running and the table no longer
\* holds the handle of that process.
C26_EndedProcessIsReleased ==
    [][IsShell =>
        \A t \in 1..shell.callers :
            LET c == shell.caller[t] IN
            (/\ c.at \in {"view_finish", "wait_rest", "write_poll", "kill_mark"}
             /\ shell'.caller[t].at = "idle"
             /\ ~shell.processes[c.process].alive) =>
                /\ ~shell'.processes[c.process].running
                /\ shell'.sessions[c.id] # c.process]_vars

\* C27: every editor command (view, create, str_replace, insert, undo_edit)
\* whose target does not resolve to the root directory or a descendant of it
\* returns an error and changes neither the directories nor the files, and
\* every command other than view whose target is a directory returns an
\* error.
C27_EditorStaysUnderRoot ==
    [][IsEditor =>
        LET r == editor'.result
            target == normalize_path(r.path)
        IN  /\ (r.command \in {"view", "create", "str_replace", "insert", "undo_edit"}
                    /\ ~UnderRoot_ByComponents(resolve(target)))
                => /\ r.status = "error"
                   /\ editor'.dirs = editor.dirs
                   /\ editor'.files = editor.files
            /\ (r.command \in {"create", "str_replace", "insert", "undo_edit"}
                    /\ is_dir(editor, target))
                => r.status = "error"]_vars

\* C28: every call of a public operation of the ShellTool (exec, view, wait,
\* write, kill and __call__ with any command string), whatever its
\* arguments and whatever the session table holds, ends with a result whose
\* status is success, error or timeout and never with an exception.
C28_ShellCallsReturnAStatus ==
    IsShell =>
        \A t \in 1..shell.callers :
            LET r == shell.caller[t].result IN
            r # NoShellResult =>
                /\ r.exc = NoExc
                /\ r.status \in {"success", "error", "timeout"}

\* C29: in the definition derived for a user-supplied tool function, a
\* parameter is listed as required if and only if it has no default value,
\* and its type is integer, number, boolean, array or object when its
\* annotation is int, float, bool, list or dict, and string for every other
\* annotation and for no annotation.
C29_SchemaFollowsSignature ==
    (IsTools /\ tool_manager._tool_definitions # <<>>) =>
        LET sig == tool_manager.search.sig
            schema == tool_manager._tool_definitions[5].input_schema
        IN  /\ Keys(schema.properties) = {ParamNames[i] : i \in 1..Len(sig)}
            /\ \A i \in 1..Len(sig) :
                /\ ParamNames[i] \in Range(schema.required)
                        <=> sig[i].default = Empty
                /\ Get(schema.properties, ParamNames[i]).type =
                        (CASE sig[i].annotation = Class("int") -> "integer"
                           [] sig[i].annotation = Class("float") -> "number"
                           [] sig[i].annotation = Class("bool") -> "boolean"
                           [] sig[i].annotation = Class("list") -> "array"
                           [] sig[i].annotation = Class("dict") -> "object"
                           [] OTHER -> "string")

\* the definition of search(query: bool, limit=None) is derived
C29_Witness ==
    /\ IsTools
    /\ tool_manager._tool_definitions # <<>>
    /\ tool_manager.search.sig =
            << [annotation |-> Class("bool"), default |-> Empty],
               [annotation |-> Empty, default |-> None] >>
    /\ tool_manager._tool_definitions[5].input_schema.required = <<"query">>

\* C30: for every execute call, the scope as it was before the call with
\* the returned delta merged into it (dict.update on a copy) is the scope
\* as it is after the call: the same keys with equal values, also when the
\* fragment deletes a name.
C30_MergedDeltaIsTheScope ==
    (lastDispatch.exec.ran /\ lastDispatch.exec.ret.escaped = NoExc) =>
        LET before == lastDispatch.exec.before
            after == lastDispatch.exec.ret.scope
            delta == lastDispatch.exec.ret.updated_globals
            merged == {e \in before : e.k \notin Keys(delta)} \cup delta
        IN  /\ Keys(merged) = Keys(after)
            /\ \A k \in Keys(merged) \cap Keys(after) :
                    PyEq(Get(merged, k), Get(after, k))

\* C31: in main, every tool_use block whose name the request advertises
\* (crawl_website, the editor tool, idle and the five shell_* tools) is
\* dispatched, and exactly one result message for it is in the history
\* before the next provider call: after each block the dispatches of the
\* turn are the advertised tool_use blocks so far, in order, and the
\* history holds one user message for each after the assistant message.
C31_MainDispatchesAdvertisedTools ==
    (variant = "main" /\ pc = "blocks") =>
        LET advertised ==
                {"crawl_website", EditorName, "idle", "shell_exec", "shell_view",
                 "shell_wait", "shell_write_to_process", "shell_kill_process"}
            done == SubSeq(content, 1, idx - 1)
            asked == SelectSeq(done, LAMBDA b : b.type = "tool_use"
                                                /\ b.name \in advertised)
            h == conversation_history
            last == CHOOSE i \in 1..Len(h) :
                        /\ h[i].role = "assistant"
                        /\ \A j \in (i + 1)..Len(h) : h[j].role # "assistant"
        IN  /\ turnLog = [i \in 1..Len(asked) |-> asked[i].id]
            /\ Len(h) - last = Len(asked)

\* C32: a fragment brings a module into the execution scope only if the
\* module's name is on the authorized-imports list: an execute call of a
\* fragment that imports any other module reports an error and leaves the
\* scope without that module.
C32_OnlyAuthorizedImports ==
    lastDispatch.exec.ran =>
        \A i \in 1..Len(lastDispatch.exec.code.stmts) :
            LET st == lastDispatch.exec.code.stmts[i] IN
            (st.op = "import" /\ st.name \notin AUTHORIZED_IMPORTS) =>
                /\ lastDispatch.exec.ret.error # None
                /\ st.name \notin Keys(lastDispatch.exec.ret.scope)
                /\ st.name \notin Keys(globals_locals)

\* C33: shell_view, shell_wait, shell_write_to_process and
\* shell_kill_process called with an id that has no session return an error
\* and leave the session table as it was: no session is made for the id,
\* and the process, the output buffer and the running flag of every session
\* there is stay what they were.
C33_UnknownIdChangesNothing ==
    [][IsShell =>
        \A t \in 1..shell.callers :
            LET c == shell.caller[t]
                unchanged == /\ shell'.sessions = shell.sessions
                             /\ shell'.processes = shell.processes
            IN  /\ \A id \in DOMAIN shell.sessions :
                    /\ (shell.sessions[id] = 0 /\ ShellViewBegin(t, id))
                        => shell'.caller[t].result = ShellError("view") /\ unchanged
                    /\ (shell.sessions[id] = 0
                            /\ \E seconds \in WaitSeconds : ShellWaitBegin(t, id, seconds))
                        => shell'.caller[t].result = ShellError("wait") /\ unchanged
                    /\ (shell.sessions[id] = 0
                            /\ \E press_enter \in BOOLEAN : ShellWriteBegin(t, id, press_enter))
                        => shell'.caller[t].result = ShellError("write") /\ unchanged
                /\ (c.at = "kill_lookup" /\ ~c.nested /\ shell.sessions[c.id] = 0
                        /\ ShellKillLookup(t))
                    => shell'.caller[t].result = ShellError("kill") /\ unchanged]_vars

\* C33 witness: s1 has a session with output in its buffer, and a view of
\* s2, which has none, has returned its error.
C33_Witness ==
    /\ IsShell
    /\ DOMAIN shell.sessions = SessionIds
    /\ shell.sessions["s1"] # 0
    /\ shell.sessions["s2"] = 0
    /\ shell.processes[shell.sessions["s1"]].output # <<>>
    /\ shell.caller[1].at = "idle"
    /\ shell.caller[1].result = ShellError("view")

\* C34: with one caller, the output buffer of a session is append-only
\* between two shell_exec calls on its id: no step of shell_view,
\* shell_wait, shell_write_to_process or shell_kill_process takes a line out
\* of it or moves one, a shell_view reports the buffer as it is, so that it
\* reports an extension of what the shell_view before it reported, and the
\* buffer is empty when shell_exec has stored a new session.
C34_BufferIsAppendOnly ==
    [][IsShell =>
        /\ \A id \in DOMAIN shell.sessions :
            LET s == shell.sessions[id] IN
            IF shell'.sessions[id] = s
            THEN s # 0 => StartsWith(shell'.processes[s].output,
                                     shell.processes[s].output)
            ELSE shell'.processes[shell'.sessions[id]].output = <<>>
        /\ \A t \in 1..shell.callers :
            LET c == shell.caller[t]
                r == shell'.caller[t].result
            IN  (c.at = "view_finish" /\ shell'.caller[t].at = "idle") =>
                    /\ r.output = shell'.processes[c.process].output
                    /\ (c.result.op = "view" /\ c.result.status = "success")
                        => StartsWith(r.output, c.result.output)]_vars

\* C34 witness: the third call on the session, a shell_view, has reported
\* the two lines the process wrote before it ended.
C34_Witness ==
    /\ IsShell
    /\ shell.callers = 1
    /\ shell.calls = 3
    /\ shell.caller[1].at = "idle"
    /\ shell.caller[1].result.op = "view"
    /\ shell.caller[1].result.output = <<1, 2>>
    /\ shell.processes[shell.sessions["s1"]].output = <<1, 2>>

\* C35: a call of shell_exec, shell_view, shell_wait,
\* shell_write_to_process or shell_kill_process on the id a leaves the
\* session of every other id b as it was: no step of the call changes the
\* table entry of b, or the process, the working directory, the output
\* buffer or the running flag of b's session.
C35_OtherSessionsUntouched ==
    [][IsShell =>
        \A t \in 1..shell.callers, a \in DOMAIN shell.sessions :
            LET c == shell.caller[t]
                on_a ==
                    IF c.at # "idle" THEN c.id = a /\ shell'.caller[t] # c
                    ELSE \/ \E exec_dir \in ExecDirs : ShellExecBegin(t, a, exec_dir)
                         \/ ShellViewBegin(t, a)
                         \/ \E seconds \in WaitSeconds : ShellWaitBegin(t, a, seconds)
                         \/ \E press_enter \in BOOLEAN : ShellWriteBegin(t, a, press_enter)
                         \/ ShellKillBegin(t, a)
            IN  on_a =>
                    \A b \in DOMAIN shell.sessions \ {a} :
                        /\ shell'.sessions[b] = shell.sessions[b]
                        /\ shell.sessions[b] # 0 =>
                                shell'.processes[shell.sessions[b]]
                                    = shell.processes[shell.sessions[b]]]_vars

\* C35 witness: s1 and s2 have a session each, shell_kill_process has ended
\* the process of s1, and the process of s2 is alive and marked running.
C35_Witness ==
    /\ IsShell
    /\ DOMAIN shell.sessions = SessionIds
    /\ shell.sessions["s1"] # 0
    /\ shell.sessions["s2"] # 0
    /\ shell.caller[1].at = "idle"
    /\ shell.caller[1].result.op = "kill"
    /\ shell.caller[1].result.status = "success"
    /\ ~shell.processes[shell.sessions["s1"]].alive
    /\ shell.processes[shell.sessions["s2"]].alive
    /\ shell.processes[shell.sessions["s2"]].running

\* the places of the text s where sub occurs
Occurrences(s, sub) ==
    {i \in 1..(Len(s) + 1) :
        i + Len(sub) - 1 <= Len(s) /\ SubSeq(s, i, i + Len(sub) - 1) = sub}

\* the text s with the occurrence of old at the place i replaced by new
ReplacedAt(s, i, old, new) ==
    SubSeq(s, 1, i - 1) \o new \o SubSeq(s, i + Len(old), Len(s))

\* C36: str_replace changes a file only when old_str occurs in it exactly
\* once; it then replaces that occurrence and pushes the previous content on
\* the history of the file. When old_str occurs in no place or in more than
\* one, the call returns an error and leaves the files and the history as
\* they were.
C36_StrReplaceNeedsOneOccurrence ==
    [][IsEditor =>
        \A path \in EditorPaths, old_str \in OldStrs, new_str \in NewStrs \ {None} :
            EditorStrReplace(path, old_str, new_str) =>
                LET _path == normalize_path(path)
                    text == read_file(editor, _path)
                    places == IF is_file(editor, _path)
                              THEN Occurrences(text, old_str.s) ELSE {}
                IN  /\ editor'.files # editor.files => Cardinality(places) = 1
                    /\ Cardinality(places) = 1
                            /\ EditorTool_validate_path(editor, "str_replace", _path).exc = NoExc
                        => /\ editor'.result.status = "success"
                           /\ \E i \in places :
                                read_file(editor', _path)
                                    = ReplacedAt(text, i, old_str.s, new_str.s)
                           /\ History(editor', _path)
                                    = Append(History(editor, _path), text)
                    /\ Cardinality(places) # 1
                        => /\ editor'.result.status = "error"
                           /\ editor'.files = editor.files
                           /\ editor'._file_history = editor._file_history]_vars

\* C40: the undo history is a stack for each file. After successful
\* str_replace and insert edits of a file, an undo_edit of the file succeeds
\* and restores the content the file had before the last edit not yet taken
\* back; an undo_edit of a file with no such edit returns an error and
\* leaves the files unchanged; a str_replace or insert that fails pushes
\* nothing.
C40_UndoIsAStackPerFile ==
    [][IsEditor /\ editor'.calls = editor.calls + 1 =>
        LET r == editor'.result
            _path == normalize_path(r.path)
            before == EditsOf(editor, resolve(_path))
        IN  /\ r.command = "undo_edit"
                    /\ EditorTool_validate_path(editor, "undo_edit", _path).exc = NoExc
                => IF before # <<>>
                   THEN /\ r.status = "success"
                        /\ read_file(editor', _path) = before[Len(before)]
                   ELSE /\ r.status = "error"
                        /\ editor'.files = editor.files
            /\ r.command \in {"str_replace", "insert"} /\ r.status = "error"
                => editor'._file_history = editor._file_history]_vars

\* C37: on one Agent, whatever run, process_loop and reset calls are made,
\* step_count never exceeds max_steps, and every provider call is issued
\* with step_count below max_steps.  The value of step_count at the call is
\* the one before the step in run, which counts after the call, and the one
\* after the step in process_loop, which counts before it.
C37_MaxStepsBoundsTheSteps ==
    /\ [](IsAgent => step_count <= max_steps)
    /\ [][IsAgent /\ providerCalls' > providerCalls =>
            (IF pc = "idle" THEN step_count ELSE step_count') < max_steps]_vars

\* C38: in process_loop, once a provider call with the summary-only system
\* prompt has been issued (in the final turn of the loop, or after the turn
\* ceiling), no tool is executed, no further provider call is made and the
\* conversation is left alone; the response of that call, when the call
\* succeeds, is the message appended by it, so it is the last message of
\* the conversation that is returned and the final_response.
C38_SummaryCallIsTheLast ==
    /\ [][variant = "process_loop" /\ summaryCalls' > summaryCalls =>
            /\ summaryCalls = 0
            /\ failedCalls' = failedCalls =>
                    /\ Len(conversation') = Len(conversation) + 1
                    /\ conversation'[Len(conversation')].role = "assistant"]_vars
    /\ [][variant = "process_loop" /\ summaryCalls > 0 =>
            /\ providerCalls' = providerCalls
            /\ lastDispatch' = lastDispatch
            /\ turnLog' = turnLog
            /\ conversation' = conversation]_vars
    /\ [](variant = "process_loop" /\ pc = "returned" /\ summaryCalls > 0
                /\ failedCalls = 0 =>
            ret.final_response = conversation[Len(conversation)].content)

\* C38 witness: process_loop has returned after a tool turn and a summary
\* turn inside the loop whose response text holds a tool call
C38_Witness ==
    /\ variant = "process_loop"
    /\ pc = "returned"
    /\ summaryCalls = 1
    /\ failedCalls = 0
    /\ final_turn
    /\ ret.status = "success"
    /\ \E i \in 1..Len(conversation) : conversation[i].role = "function"
    /\ extract_tool_calls(conversation[Len(conversation)].content.segs, registry) # <<>>

\* C39: in Agent.run, once final_answer has been dispatched and has marked
\* the agent done, no further tool invocation is dispatched, the done flag
\* is never cleared and the recorded final answer is never changed.
C39_NothingAfterFinalAnswer ==
    [][variant = "run" /\ is_done =>
            /\ lastDispatch' = lastDispatch
            /\ is_done'
            /\ final_answer' = final_answer]_vars

====
